---- MODULE Spec2Model ----
\* Model of the life-stages dialogue orchestrators (src/motion/new_main.py and
\* src/motion/main.py) together with the motion controller they drive
\* (src/motion/motion_controller.py, src/motion/nao_basic_motion.py,
\* src/motion/emo_list.py) and the speech-to-text front end
\* (src/motion/stt_whisper_direct.py).
\*
\* Text that the code inspects character by character (utterances, LLM replies,
\* tags, animation names) is a sequence of one-character strings.  Names that
\* the code only compares for equality (stage names, event keys, roles, posture
\* names) are plain strings.
EXTENDS Integers, Sequences, FiniteSets, TLC

(***************************************************************************)
(* Python str operations used by the code                                  *)
(***************************************************************************)
UpperAlpha ==
  <<"A","B","C","D","E","F","G","H","I","J","K","L","M",
    "N","O","P","Q","R","S","T","U","V","W","X","Y","Z">>

LowerAlpha ==
  <<"a","b","c","d","e","f","g","h","i","j","k","l","m",
    "n","o","p","q","r","s","t","u","v","w","x","y","z">>

IsUpper(c) == \E i \in 1..26 : UpperAlpha[i] = c

IsLower(c) == \E i \in 1..26 : LowerAlpha[i] = c

LowerChar(c) == IF IsUpper(c) THEN LowerAlpha[CHOOSE i \in 1..26 : UpperAlpha[i] = c] ELSE c

\* str.lower()
lower(s) == [i \in 1..Len(s) |-> LowerChar(s[i])]

IsSpace(c) == c \in {" ", "\t", "\n", "\r"}

SetMin(S) == CHOOSE x \in S : \A y \in S : x <= y

SetMax(S) == CHOOSE x \in S : \A y \in S : x >= y

\* str.strip()
strip(s) ==
  LET keep == {i \in 1..Len(s) : ~IsSpace(s[i])}
  IN  IF keep = {} THEN <<>> ELSE SubSeq(s, SetMin(keep), SetMax(keep))

\* str.startswith(p)
startswith(s, p) == Len(s) >= Len(p) /\ SubSeq(s, 1, Len(p)) = p

\* str.endswith(p)
endswith(s, p) == Len(s) >= Len(p) /\ SubSeq(s, Len(s) - Len(p) + 1, Len(s)) = p

\* p in s  (substring test)
contains(s, p) == \E i \in 1..(Len(s) - Len(p) + 1) : SubSeq(s, i, i + Len(p) - 1) = p

\* s.split("/")[-1]
LastSegment(s) ==
  LET slashes == {i \in 1..Len(s) : s[i] = "/"}
  IN  IF slashes = {} THEN s ELSE SubSeq(s, SetMax(slashes) + 1, Len(s))

IsNotUnderscore(c) == c # "_"

\* Python None for Optional[str] values: a token no text can equal.
None == <<"None">>

\* Python truthiness of an Optional[str]
Truthy(x) == x # None /\ x # <<>>

(***************************************************************************)
(* Tag extraction: new_main.py MOTION_TAG_PATTERN and                      *)
(* extract_motion_tags_and_clean_text (main.py has the same code)          *)
(***************************************************************************)
\* the character class [a-zA-Z_]
IsTagChar(c) == IsLower(c) \/ IsUpper(c) \/ c = "_"

\* fault variant of MOTION_TAG_PATTERN: '[' [a-zA-Z_]* ']', which also
\* matches the empty pair '[]'
MOTION_TAG_PATTERN_AllowsEmpty(s, i) ==
  IF i > Len(s) \/ s[i] # "[" THEN 0
  ELSE LET stops == {j \in (i + 1)..Len(s) : ~IsTagChar(s[j])}
           j == IF stops = {} THEN Len(s) + 1 ELSE SetMin(stops)
       IN  IF j <= Len(s) /\ s[j] = "]" THEN j ELSE 0

\* MOTION_TAG_PATTERN matched at position i of s: the index of the closing
\* bracket of the match, or 0 when the pattern does not match at i.
MOTION_TAG_PATTERN(s, i) ==
  IF i > Len(s) \/ s[i] # "[" THEN 0
  ELSE LET stops == {j \in (i + 1)..Len(s) : ~IsTagChar(s[j])}
           j == IF stops = {} THEN Len(s) + 1 ELSE SetMin(stops)
       IN  IF j > i + 1 /\ j <= Len(s) /\ s[j] = "]" THEN j ELSE 0

\* MOTION_TAG_PATTERN.sub(_collect, raw_text): leftmost non-overlapping matches,
\* each replaced by "" and its tag (stripped, lowercased, if non-empty) collected.
RECURSIVE TagSub(_, _, _, _)
TagSub(s, i, tags, out) ==
  IF i > Len(s) THEN [tags |-> tags, text |-> out]
  ELSE LET j == MOTION_TAG_PATTERN(s, i)
       IN  IF j = 0 THEN TagSub(s, i + 1, tags, Append(out, s[i]))
           ELSE LET tag == lower(strip(SubSeq(s, i + 1, j - 1)))
                IN  TagSub(s, j + 1, IF tag # <<>> THEN tags \cup {tag} ELSE tags, out)

\* fault variant of extract_motion_tags_and_clean_text: the cleaned text is
\* not stripped
extract_motion_tags_and_clean_text_Untrimmed(raw_text) ==
  LET r == TagSub(raw_text, 1, {}, <<>>)
  IN  [tags |-> r.tags, clean_text |-> r.text]

\* fault variant of extract_motion_tags_and_clean_text: the text is stripped
\* before the tags are taken out, not after
extract_motion_tags_and_clean_text_StripFirst(raw_text) ==
  LET r == TagSub(strip(raw_text), 1, {}, <<>>)
  IN  [tags |-> r.tags, clean_text |-> r.text]

extract_motion_tags_and_clean_text(raw_text) ==
  LET r == TagSub(raw_text, 1, {}, <<>>)
  IN  [tags |-> r.tags, clean_text |-> strip(r.text)]

(***************************************************************************)
(* The animation catalog: emo_list.py                                      *)
(***************************************************************************)
NegativePrefix ==
  <<"a","n","i","m","a","t","i","o","n","s","/","S","t","a","n","d","/","E","m","o","t","i","o","n","s","/","N","e","g","a","t","i","v","e","/">>

GesturesPrefix ==
  <<"a","n","i","m","a","t","i","o","n","s","/","S","t","a","n","d","/","G","e","s","t","u","r","e","s","/">>

NEGATIVE_EMOTION_ANIMATIONS ==
  <<
    NegativePrefix \o <<"A","n","g","r","y","_","1">>,
    NegativePrefix \o <<"A","n","g","r","y","_","2">>,
    NegativePrefix \o <<"A","n","g","r","y","_","3">>,
    NegativePrefix \o <<"A","n","g","r","y","_","4">>,
    NegativePrefix \o <<"A","n","x","i","o","u","s","_","1">>,
    NegativePrefix \o <<"B","o","r","e","d","_","1">>,
    NegativePrefix \o <<"B","o","r","e","d","_","2">>,
    NegativePrefix \o <<"D","i","s","a","p","p","o","i","n","t","e","d","_","1">>,
    NegativePrefix \o <<"E","x","h","a","u","s","t","e","d","_","1">>,
    NegativePrefix \o <<"E","x","h","a","u","s","t","e","d","_","2">>,
    NegativePrefix \o <<"F","e","a","r","_","1">>,
    NegativePrefix \o <<"F","e","a","r","_","2">>,
    NegativePrefix \o <<"F","e","a","r","f","u","l","_","1">>,
    NegativePrefix \o <<"F","r","u","s","t","r","a","t","e","d","_","1">>,
    NegativePrefix \o <<"H","u","m","i","l","i","a","t","e","d","_","1">>,
    NegativePrefix \o <<"H","u","r","t","_","1">>,
    NegativePrefix \o <<"H","u","r","t","_","2">>,
    NegativePrefix \o <<"L","a","t","e","_","1">>,
    NegativePrefix \o <<"S","a","d","_","1">>,
    NegativePrefix \o <<"S","a","d","_","2">>,
    NegativePrefix \o <<"S","h","o","c","k","e","d","_","1">>,
    NegativePrefix \o <<"S","o","r","r","y","_","1">>,
    NegativePrefix \o <<"S","u","r","p","r","i","s","e","_","1">>,
    NegativePrefix \o <<"S","u","r","p","r","i","s","e","_","2">>,
    NegativePrefix \o <<"S","u","r","p","r","i","s","e","_","3">>
  >>

GESTURE_ANIMATIONS ==
  <<
    GesturesPrefix \o <<"A","n","g","r","y","_","1">>,
    GesturesPrefix \o <<"A","n","g","r","y","_","2">>,
    GesturesPrefix \o <<"A","n","g","r","y","_","3">>,
    GesturesPrefix \o <<"B","o","w","S","h","o","r","t","_","1">>,
    GesturesPrefix \o <<"B","o","w","S","h","o","r","t","_","2">>,
    GesturesPrefix \o <<"B","o","w","S","h","o","r","t","_","3">>,
    GesturesPrefix \o <<"B","u","t","_","1">>,
    GesturesPrefix \o <<"C","a","l","m","D","o","w","n","_","1">>,
    GesturesPrefix \o <<"C","a","l","m","D","o","w","n","_","2">>,
    GesturesPrefix \o <<"C","a","l","m","D","o","w","n","_","3">>,
    GesturesPrefix \o <<"C","a","l","m","D","o","w","n","_","4">>,
    GesturesPrefix \o <<"C","a","l","m","D","o","w","n","_","5">>,
    GesturesPrefix \o <<"C","a","l","m","D","o","w","n","_","6">>,
    GesturesPrefix \o <<"C","h","o","i","c","e","_","1">>,
    GesturesPrefix \o <<"C","o","m","e","O","n","_","1">>,
    GesturesPrefix \o <<"C","o","n","f","u","s","e","d","_","1">>,
    GesturesPrefix \o <<"C","o","n","f","u","s","e","d","_","2">>,
    GesturesPrefix \o <<"C","o","u","n","t","F","i","v","e","_","1">>,
    GesturesPrefix \o <<"C","o","u","n","t","F","o","u","r","_","1">>,
    GesturesPrefix \o <<"C","o","u","n","t","M","o","r","e","_","1">>,
    GesturesPrefix \o <<"C","o","u","n","t","O","n","e","_","1">>,
    GesturesPrefix \o <<"C","o","u","n","t","T","h","r","e","e","_","1">>,
    GesturesPrefix \o <<"C","o","u","n","t","T","w","o","_","1">>,
    GesturesPrefix \o <<"D","e","s","p","e","r","a","t","e","_","1">>,
    GesturesPrefix \o <<"D","e","s","p","e","r","a","t","e","_","2">>,
    GesturesPrefix \o <<"D","e","s","p","e","r","a","t","e","_","3">>,
    GesturesPrefix \o <<"D","e","s","p","e","r","a","t","e","_","4">>,
    GesturesPrefix \o <<"D","e","s","p","e","r","a","t","e","_","5">>,
    GesturesPrefix \o <<"D","o","n","t","U","n","d","e","r","s","t","a","n","d","_","1">>,
    GesturesPrefix \o <<"E","n","t","h","u","s","i","a","s","t","i","c","_","3">>,
    GesturesPrefix \o <<"E","n","t","h","u","s","i","a","s","t","i","c","_","4">>,
    GesturesPrefix \o <<"E","n","t","h","u","s","i","a","s","t","i","c","_","5">>,
    GesturesPrefix \o <<"E","v","e","r","y","t","h","i","n","g","_","1">>,
    GesturesPrefix \o <<"E","v","e","r","y","t","h","i","n","g","_","2">>,
    GesturesPrefix \o <<"E","v","e","r","y","t","h","i","n","g","_","3">>,
    GesturesPrefix \o <<"E","v","e","r","y","t","h","i","n","g","_","4">>,
    GesturesPrefix \o <<"E","v","e","r","y","t","h","i","n","g","_","6">>,
    GesturesPrefix \o <<"E","x","c","i","t","e","d","_","1">>,
    GesturesPrefix \o <<"E","x","p","l","a","i","n","_","1">>,
    GesturesPrefix \o <<"E","x","p","l","a","i","n","_","2">>,
    GesturesPrefix \o <<"E","x","p","l","a","i","n","_","3">>,
    GesturesPrefix \o <<"E","x","p","l","a","i","n","_","4">>,
    GesturesPrefix \o <<"E","x","p","l","a","i","n","_","5">>,
    GesturesPrefix \o <<"E","x","p","l","a","i","n","_","6">>,
    GesturesPrefix \o <<"E","x","p","l","a","i","n","_","7">>,
    GesturesPrefix \o <<"E","x","p","l","a","i","n","_","8">>,
    GesturesPrefix \o <<"E","x","p","l","a","i","n","_","1","0">>,
    GesturesPrefix \o <<"E","x","p","l","a","i","n","_","1","1">>,
    GesturesPrefix \o <<"F","a","r","_","1">>,
    GesturesPrefix \o <<"F","a","r","_","2">>,
    GesturesPrefix \o <<"F","a","r","_","3">>,
    GesturesPrefix \o <<"F","o","l","l","o","w","_","1">>,
    GesturesPrefix \o <<"G","i","v","e","_","1">>,
    GesturesPrefix \o <<"G","i","v","e","_","2">>,
    GesturesPrefix \o <<"G","i","v","e","_","3">>,
    GesturesPrefix \o <<"G","i","v","e","_","4">>,
    GesturesPrefix \o <<"G","i","v","e","_","5">>,
    GesturesPrefix \o <<"G","i","v","e","_","6">>,
    GesturesPrefix \o <<"G","r","e","a","t","_","1">>,
    GesturesPrefix \o <<"H","e","S","a","y","s","_","1">>,
    GesturesPrefix \o <<"H","e","S","a","y","s","_","2">>,
    GesturesPrefix \o <<"H","e","S","a","y","s","_","3">>,
    GesturesPrefix \o <<"H","e","y","_","1">>,
    GesturesPrefix \o <<"H","e","y","_","6">>,
    GesturesPrefix \o <<"I","D","o","n","t","K","n","o","w","_","1">>,
    GesturesPrefix \o <<"I","D","o","n","t","K","n","o","w","_","2">>,
    GesturesPrefix \o <<"M","e","_","1">>,
    GesturesPrefix \o <<"M","e","_","2">>,
    GesturesPrefix \o <<"N","o","_","3">>,
    GesturesPrefix \o <<"N","o","_","8">>,
    GesturesPrefix \o <<"N","o","_","9">>,
    GesturesPrefix \o <<"P","l","e","a","s","e","_","1">>,
    GesturesPrefix \o <<"Y","e","s","_","1">>,
    GesturesPrefix \o <<"Y","e","s","_","2">>,
    GesturesPrefix \o <<"Y","e","s","_","3">>,
    GesturesPrefix \o <<"Y","o","u","K","n","o","w","W","h","a","t","_","1">>,
    GesturesPrefix \o <<"Y","o","u","K","n","o","w","W","h","a","t","_","5">>,
    GesturesPrefix \o <<"Y","o","u","_","1">>,
    GesturesPrefix \o <<"Y","o","u","_","4">>
  >>

ALL_ANIMATIONS == NEGATIVE_EMOTION_ANIMATIONS \o GESTURE_ANIMATIONS

\* Other contents the list emo_list.ALL_ANIMATIONS can have: a list of two
\* entries outside the animations/ tree, and a list with an entry named
\* Neutral and with the name Angry_1 under Emotions and under Gestures
TWO_ANIMATIONS ==
  << <<"n","s","/","G","e","s","t","u","r","e","s","/","H","e","y","_","1">>,
     <<"n","s","/","E","m","o","t","i","o","n","s","/","A","n","g","r","y","_","1">> >>

NEUTRAL_ANIMATIONS ==
  << <<"a","n","i","m","a","t","i","o","n","s","/","S","t","a","n","d","/","E","m","o","t","i","o","n","s","/","N","e","u","t","r","a","l","/","N","e","u","t","r","a","l","_","1">>,
     <<"a","n","i","m","a","t","i","o","n","s","/","S","t","a","n","d","/","E","m","o","t","i","o","n","s","/","N","e","g","a","t","i","v","e","/","A","n","g","r","y","_","1">>,
     <<"a","n","i","m","a","t","i","o","n","s","/","S","t","a","n","d","/","G","e","s","t","u","r","e","s","/","A","n","g","r","y","_","1">>,
     <<"a","n","i","m","a","t","i","o","n","s","/","S","t","a","n","d","/","G","e","s","t","u","r","e","s","/","H","e","y","_","1">> >>

\* the lists by name
Catalogs ==
  [repository |-> ALL_ANIMATIONS, two |-> TWO_ANIMATIONS, with_neutral |-> NEUTRAL_ANIMATIONS]

CatalogNames == DOMAIN Catalogs

(***************************************************************************)
(* Tag resolution: motion_controller.py                                    *)
(***************************************************************************)
AnimationsPrefix == <<"a","n","i","m","a","t","i","o","n","s","/">>

GesturesInfix == <<"/","g","e","s","t","u","r","e","s","/">>

GesturePrefix == <<"g","e","s","t","u","r","e","_">>

neutral == <<"n","e","u","t","r","a","l">>

\* fault variant of _resolve_animation_name: of several suffix matches the
\* first is returned, whatever its path
_resolve_animation_name_FirstMatch(animations, name) ==
  IF ~Truthy(name) THEN None
  ELSE LET lowered == lower(strip(name))
           exact == {i \in 1..Len(animations) : animations[i] = name}
           ci == {i \in 1..Len(animations) : lower(animations[i]) = lowered}
           matches == SelectSeq(animations, LAMBDA a : endswith(lower(a), <<"/">> \o lowered))
       IN  IF lowered = <<>> THEN None
           ELSE IF startswith(name, AnimationsPrefix) /\ exact # {} THEN animations[SetMin(exact)]
           ELSE IF startswith(name, AnimationsPrefix) /\ ci # {} THEN animations[SetMin(ci)]
           ELSE IF matches = <<>> THEN None
           ELSE matches[1]

_resolve_animation_name(animations, name) ==
  IF ~Truthy(name) THEN None
  ELSE LET lowered == lower(strip(name))
           exact == {i \in 1..Len(animations) : animations[i] = name}
           ci == {i \in 1..Len(animations) : lower(animations[i]) = lowered}
           matches == SelectSeq(animations, LAMBDA a : endswith(lower(a), <<"/">> \o lowered))
           gesture_matches == SelectSeq(matches, LAMBDA m : contains(lower(m), GesturesInfix))
       IN  IF lowered = <<>> THEN None
           ELSE IF startswith(name, AnimationsPrefix) /\ exact # {} THEN animations[SetMin(exact)]
           ELSE IF startswith(name, AnimationsPrefix) /\ ci # {} THEN animations[SetMin(ci)]
           ELSE IF matches = <<>> THEN None
           ELSE IF Len(matches) = 1 THEN matches[1]
           ELSE IF gesture_matches # <<>> THEN gesture_matches[1]
           ELSE matches[1]

\* nao_basic_motion.py NaoBasicMotionStandalone._resolve_animation_name: the
\* name is stripped before the full-path test
standalone_resolve_animation_name(animations, name) ==
  LET stripped == strip(name)
      lowered == lower(stripped)
      exact == {i \in 1..Len(animations) : animations[i] = stripped}
      ci == {i \in 1..Len(animations) : lower(animations[i]) = lowered}
      matches == SelectSeq(animations, LAMBDA a : endswith(lower(a), <<"/">> \o lowered))
      gesture_matches == SelectSeq(matches, LAMBDA m : contains(lower(m), GesturesInfix))
  IN  IF stripped = <<>> THEN None
      ELSE IF startswith(stripped, AnimationsPrefix) /\ exact # {} THEN stripped
      ELSE IF startswith(stripped, AnimationsPrefix) /\ ci # {} THEN animations[SetMin(ci)]
      ELSE IF matches = <<>> THEN None
      ELSE IF Len(matches) = 1 THEN matches[1]
      ELSE IF gesture_matches # <<>> THEN gesture_matches[1]
      ELSE matches[1]

_normalize_tag(tag) ==
  LET raw == lower(strip(tag))
      cut == IF startswith(raw, GesturePrefix) THEN SubSeq(raw, Len(GesturePrefix) + 1, Len(raw)) ELSE raw
  IN  SelectSeq(cut, IsNotUnderscore)

\* fault variant of _find_animation_for_tag: the last match is returned
_find_animation_for_tag_LastMatch(animations, tag) ==
  IF ~Truthy(tag) THEN None
  ELSE LET normalized == _normalize_tag(tag)
           hits == {i \in 1..Len(animations) :
                      contains(SelectSeq(lower(LastSegment(animations[i])), IsLower), normalized)}
       IN  IF normalized = <<>> THEN None
           ELSE IF hits = {} THEN None
           ELSE animations[SetMax(hits)]

_find_animation_for_tag(animations, tag) ==
  IF ~Truthy(tag) THEN None
  ELSE LET normalized == _normalize_tag(tag)
           hits == {i \in 1..Len(animations) :
                      contains(SelectSeq(lower(LastSegment(animations[i])), IsLower), normalized)}
       IN  IF normalized = <<>> THEN None
           ELSE IF hits = {} THEN None
           ELSE animations[SetMin(hits)]

(***************************************************************************)
(* Bounds and sampled inputs                                               *)
(***************************************************************************)
\* most normal turns the user takes in one event before wrapping up
MaxTurns == 2

\* most robot requests that raise during one handler
MaxFaults == 1

\* main.py: most inputs other than quit the user types during one stage
MaxExtraTurns == 1

Str_hi == <<"h","i">>

Str_quit == <<"q","u","i","t">>

Str_exit == <<"e","x","i","t">>

\* what the audio capture can deliver: a stream error, a transcription error,
\* or a transcript
StreamError == <<"StreamError">>

TranscriptionError == <<"TranscriptionError">>

Transcripts ==
  { <<" ","h","i"," ">>,
    <<"Q","u","i","t">>,
    <<"e","x","i","t">>,
    <<" ">> }

AudioOutcomes == {StreamError, TranscriptionError} \cup Transcripts

\* what a chat completion can deliver: an error, or the reply text
Raise == <<"Raise">>

Replies ==
  { <<"[","S","a","d","]"," ","H","i"," ","[","g","e","s","t","u","r","e","_","h","e","y","]">>,
    <<"[","n","e","u","t","r","a","l","]">> }

LLMOutcomes == {Raise} \cup Replies

\* main.py call_deepseek_with_context: the reply used when the call fails
FallbackReply ==
  <<"[","n","e","u","t","r","a","l","]"," ","I"," ","s","e","e","m"," ","t","o"," ","b","e"," ",
    "h","a","v","i","n","g"," ","t","r","o","u","b","l","e"," ","t","h","i","n","k","i","n","g"," ",
    "r","i","g","h","t"," ","n","o","w",".">>

\* a completion that comes back without choices
NoChoices == <<"NoChoices">>

\* what the operator can type at the control prompt
ControlInputs == { <<"0">>, <<" ","1"," ">>, <<"2">>, <<>>, <<"q","u","i","t">>, <<"0","1">> }

(***************************************************************************)
(* Inputs of the text functions taken alone                                *)
(***************************************************************************)
\* longest generated text
MaxTextLen == 4

TextAlphabet == {"[", "]", "a", "B", "_", " ", "1"}

\* replies: every text over TextAlphabet up to MaxTextLen characters, and
\* longer ones with several tags, repeated tags and nested brackets
LongReplies ==
  { <<"[","s","a","d","]"," ","I"," ","m","i","s","s"," ","y","o","u","."," ","[","g","e","s","t","u","r","e","_","b","o","w","]">>,
    <<"[","a","]","[","A","]"," ","x"," ","[","a","]">>,
    <<"[","[","a","]","b","]"," ","c">>,
    <<" ","[","H","a","p","p","y","]"," "," ","H","e","l","l","o"," ","t","h","e","r","e","."," ">>,
    <<"[","a"," ","b","]"," ","[","]"," ","[","a","1","]"," ","o","k">> }

ReplyTexts == UNION {[1..n -> TextAlphabet] : n \in 0..MaxTextLen} \cup LongReplies

\* replies whose tags are played
PlayReplies ==
  { <<"[","n","e","u","t","r","a","l","]"," ","[","g","e","s","t","u","r","e","_","h","e","y","]"," ","o","k">>,
    <<"[","a","n","g","r","y","]","[","n","e","u","t","r","a","l","]">>,
    <<"[","p","u","r","p","l","e","_","u","n","i","c","o","r","n","]"," ","[","n","e","u","t","r","a","l","]"," ","h","m">>,
    <<"[","n","e","u","t","r","a","l","]"," ","f","i","n","e">>,
    <<"[","g","e","s","t","u","r","e","_","h","e","y","]">>,
    <<"[","a","n","g","r","y","]"," ","[","p","u","r","p","l","e","_","u","n","i","c","o","r","n","]"," ","[","g","e","s","t","u","r","e","_","h","e","y","]">>,
    <<"h","e","l","l","o">> }

\* tags: a base word behind no, one or two gesture_ prefixes, and two tags as
\* a caller other than the tag extraction could pass them
TagBases ==
  { <<"h","e","y">>,
    <<"a","n","g","r","y">>,
    <<"s","a","d">>,
    <<"n","e","u","t","r","a","l">>,
    <<"p","u","r","p","l","e","_","u","n","i","c","o","r","n">>,
    <<"m","e">>,
    <<"n","o">>,
    <<"v","e","r","y","_","a","n","g","r","y">>,
    <<"_">>,
    <<"a">>,
    <<"g","e","s","t","u","r","e">>,
    <<"b","o","w">>,
    <<>> }

TagPrefixes == { <<>>, <<"g","e","s","t","u","r","e","_">>, <<"g","e","s","t","u","r","e","_","g","e","s","t","u","r","e","_">> }

\* MOTION_SYSTEM_PROMPT, AVAILABLE EMOTION TAGS
PromptEmotionTags ==
  { <<"a","n","g","r","y">>,
    <<"a","n","x","i","o","u","s">>,
    <<"b","o","r","e","d">>,
    <<"d","i","s","a","p","p","o","i","n","t","e","d">>,
    <<"e","x","h","a","u","s","t","e","d">>,
    <<"f","e","a","r">>,
    <<"f","e","a","r","f","u","l">>,
    <<"f","r","u","s","t","r","a","t","e","d">>,
    <<"h","u","m","i","l","i","a","t","e","d">>,
    <<"h","u","r","t">>,
    <<"l","a","t","e">>,
    <<"s","a","d">>,
    <<"s","h","o","c","k","e","d">>,
    <<"s","o","r","r","y">>,
    <<"s","u","r","p","r","i","s","e">>,
    <<"n","e","u","t","r","a","l">> }

\* MOTION_SYSTEM_PROMPT, AVAILABLE GESTURE TAGS
PromptGestureTags ==
  { <<"g","e","s","t","u","r","e","_","h","e","y">>,
    <<"g","e","s","t","u","r","e","_","b","o","w">>,
    <<"g","e","s","t","u","r","e","_","y","e","s">>,
    <<"g","e","s","t","u","r","e","_","n","o">>,
    <<"g","e","s","t","u","r","e","_","c","a","l","m","_","d","o","w","n">>,
    <<"g","e","s","t","u","r","e","_","c","o","n","f","u","s","e","d">>,
    <<"g","e","s","t","u","r","e","_","d","e","s","p","e","r","a","t","e">>,
    <<"g","e","s","t","u","r","e","_","d","o","n","t","_","u","n","d","e","r","s","t","a","n","d">>,
    <<"g","e","s","t","u","r","e","_","e","n","t","h","u","s","i","a","s","t","i","c">>,
    <<"g","e","s","t","u","r","e","_","e","v","e","r","y","t","h","i","n","g">>,
    <<"g","e","s","t","u","r","e","_","e","x","c","i","t","e","d">>,
    <<"g","e","s","t","u","r","e","_","e","x","p","l","a","i","n">>,
    <<"g","e","s","t","u","r","e","_","f","a","r">>,
    <<"g","e","s","t","u","r","e","_","f","o","l","l","o","w">>,
    <<"g","e","s","t","u","r","e","_","g","i","v","e">>,
    <<"g","e","s","t","u","r","e","_","g","r","e","a","t">>,
    <<"g","e","s","t","u","r","e","_","h","e","_","s","a","y","s">>,
    <<"g","e","s","t","u","r","e","_","i","d","o","n","t","k","n","o","w">>,
    <<"g","e","s","t","u","r","e","_","m","e">>,
    <<"g","e","s","t","u","r","e","_","y","o","u">>,
    <<"g","e","s","t","u","r","e","_","p","l","e","a","s","e">>,
    <<"g","e","s","t","u","r","e","_","y","o","u","_","k","n","o","w","_","w","h","a","t">>,
    <<"g","e","s","t","u","r","e","_","c","o","u","n","t">>,
    <<"g","e","s","t","u","r","e","_","c","o","m","e","_","o","n">>,
    <<"g","e","s","t","u","r","e","_","c","h","o","i","c","e">> }

TagInputs ==
  {p \o b : p \in TagPrefixes, b \in TagBases} \cup { <<" ","A","n","g","r","y"," ">>, <<"G","e","s","t","u","r","e","_","H","e","y">> }
    \cup PromptEmotionTags \cup PromptGestureTags

UpperChar(c) == IF IsLower(c) THEN UpperAlpha[CHOOSE i \in 1..26 : LowerAlpha[i] = c] ELSE c

\* str.upper()
upper(s) == [i \in 1..Len(s) |-> UpperChar(s[i])]

\* the first letter in upper case
capitalized(s) == IF s = <<>> THEN s ELSE <<UpperChar(s[1])>> \o SubSeq(s, 2, Len(s))

\* s.split("/", 1)[1]: the path below the first directory
BelowFirst(s) ==
  LET slashes == {i \in 1..Len(s) : s[i] = "/"}
  IN  IF slashes = {} THEN s ELSE SubSeq(s, SetMin(slashes) + 1, Len(s))

\* names of no entry, empty names and a name with white space around it
OtherNames ==
  { <<"N","o","S","u","c","h","_","1">>,
    <<"a","n","i","m","a","t","i","o","n","s","/","S","t","a","n","d","/","G","e","s","t","u","r","e","s","/","N","o","S","u","c","h","_","1">>,
    <<>>,
    <<" ">>,
    <<" ","A","n","g","r","y","_","1"," ">>,
    <<" ","a","n","i","m","a","t","i","o","n","s","/","S","t","a","n","d","/","G","e","s","t","u","r","e","s","/","H","e","y","_","1"," ">>,
    <<"1">>,
    <<"_","1">>,
    <<"n","g","r","y","_","1">> }

\* animation names for a list: every entry as written, in lower case, in
\* upper case and capitalized, every suffix of an entry that starts a path
\* segment, in both cases, and OtherNames
NameInputs(animations) ==
  LET entries == {animations[i] : i \in 1..Len(animations)}
      suffixes == {LastSegment(a) : a \in entries} \cup {BelowFirst(a) : a \in entries}
  IN  entries \cup {lower(a) : a \in entries} \cup {upper(a) : a \in entries}
        \cup {capitalized(a) : a \in entries}
        \cup suffixes \cup {lower(x) : x \in suffixes}
        \cup OtherNames

\* NameInputs of each list of Catalogs
NamesFor == [c \in CatalogNames |-> NameInputs(Catalogs[c])]

(***************************************************************************)
(* The text functions are evaluated once for each sampled text and looked  *)
(* up from then on.                                                        *)
(***************************************************************************)
VARIABLE
  emo_list          \* which list emo_list.ALL_ANIMATIONS holds: a name of Catalogs

SampledReplies == Replies \cup {FallbackReply} \cup PlayReplies

ExtractTable == [r \in SampledReplies |-> extract_motion_tags_and_clean_text(r)]

Extract(raw) == ExtractTable[raw]

SampledTags == UNION {ExtractTable[r].tags : r \in SampledReplies}

FindTable ==
  [c \in CatalogNames |-> [t \in SampledTags |-> _find_animation_for_tag(Catalogs[c], t)]]

FindAnimation(tag) == FindTable[emo_list][tag]

SampledAnimations == {FindTable[c][t] : c \in CatalogNames, t \in SampledTags}

ResolveTable ==
  [c \in CatalogNames |-> [a \in SampledAnimations |-> _resolve_animation_name(Catalogs[c], a)]]

ResolveName(name) == ResolveTable[emo_list][name]

(***************************************************************************)
(* Bookkeeping of one handler run.  A handler threads an environment       *)
(* through the calls it makes:                                             *)
(*   calls    - the capability calls issued so far, in order; each entry   *)
(*              records the speech that may still be playing (during)      *)
(*   speaking - the text of the speech request that may still be playing   *)
(*   failed   - some external request raised                               *)
(*   na, np, nm - animation / posture / move requests sent so far; a fault *)
(*              names the request that raises by kind and ordinal          *)
(* A controller method returns the environment and whether it raised.      *)
(***************************************************************************)
Env0 == [calls |-> <<>>, speaking |-> <<>>, failed |-> FALSE, na |-> 0, np |-> 0, nm |-> 0]

Call(env, op, arg, block) ==
  [env EXCEPT !.calls = Append(@, [op |-> op, arg |-> arg, block |-> block, during |-> env.speaking])]

Caught(env) == [env EXCEPT !.failed = TRUE]

Ret(env) == [env |-> env, raised |-> FALSE]

Raised(env) == [env |-> [env EXCEPT !.failed = TRUE], raised |-> TRUE]

\* except Exception around a call: the error is logged and dropped
TryExcept(r) == IF r.raised THEN Ret(r.env) ELSE r

\* two statements in sequence: F runs on the environment r left behind,
\* unless r raised
Then(r, F(_)) == IF r.raised THEN r ELSE F(r.env)

(***************************************************************************)
(* motion_controller.py: EmotionMotionController                           *)
(***************************************************************************)
VctPrefix == <<"\\","v","c","t","=","1","0","0","\\">>

\* fault variant of TtsRequest: the block argument is not passed on, the
\* request returns while the text is still being spoken
TtsRequest_NeverBlocks(env, text, animated, block, faults) ==
  LET e1 == Call(env, "tts.request", [text |-> VctPrefix \o text, animated |-> animated], FALSE)
  IN  IF <<"tts", 1>> \in faults THEN Raised(e1)
      ELSE Ret([e1 EXCEPT !.speaking = text])

\* self.app.nao.tts.request(request, block=block); a blocking request returns
\* when the speech has been played, a non-blocking one leaves it playing.
TtsRequest(env, text, animated, block, faults) ==
  LET e1 == Call(env, "tts.request", [text |-> VctPrefix \o text, animated |-> animated], block)
  IN  IF <<"tts", 1>> \in faults THEN Raised(e1)
      ELSE Ret([e1 EXCEPT !.speaking = IF block THEN <<>> ELSE text])

\* fault variant of speak_text: the speech request is not wrapped in try/except
speak_text_Unguarded(env, robot, text, emotion_tag, block, faults) ==
  LET e0 == Call(env, "speak_text", text, block)
      animated == emotion_tag # None /\ ~startswith(emotion_tag, GesturePrefix)
  IN  IF text = <<>> THEN Ret(e0)
      ELSE IF robot THEN TtsRequest(e0, text, animated, block, faults)
      ELSE Ret(e0)

speak_text(env, robot, text, emotion_tag, block, faults) ==
  LET e0 == Call(env, "speak_text", text, block)
      animated == emotion_tag # None /\ ~startswith(emotion_tag, GesturePrefix)
  IN  IF text = <<>> THEN Ret(e0)
      ELSE IF robot THEN TryExcept(TtsRequest(e0, text, animated, block, faults))
      ELSE Ret(e0)

\* emo_list.MotionAnimationsApp.play_animation
play_animation(env, animation_name, faults) ==
  LET e1 == [Call(env, "play_animation", animation_name, FALSE) EXCEPT !.na = @ + 1]
  IN  TryExcept(IF <<"anim", e1.na>> \in faults THEN Raised(e1) ELSE Ret(e1))

\* one iteration of the loop over filtered tags in play_for_emotions
\* resolved = self._resolve_animation_name(animation) or animation
OrElse(r, animation) == IF Truthy(r) THEN r ELSE animation

PlayFound(env, robot, animation, faults) ==
  IF ~Truthy(animation) THEN Ret(env)
  ELSE IF robot
       THEN TryExcept(play_animation(env, OrElse(ResolveName(animation), animation), faults))
       ELSE Ret(env)

\* print("[MOTION] No animation mapped for tag ...") is kept as a call
PlayTag(env, robot, tag, faults) ==
  IF ~Truthy(FindAnimation(tag)) THEN Ret(Call(env, "report_unmapped", tag, FALSE))
  ELSE PlayFound(env, robot, FindAnimation(tag), faults)

\* fault variant of PlayLoop: the loop ends after a request that failed
RECURSIVE PlayLoop_StopsAtFailure(_, _, _, _, _)
PlayLoop_StopsAtFailure(env, robot, order, i, faults) ==
  IF i > Len(order) \/ env.failed THEN Ret(env)
  ELSE Then(PlayTag(env, robot, order[i], faults),
            LAMBDA e : PlayLoop_StopsAtFailure(e, robot, order, i + 1, faults))

RECURSIVE PlayLoop(_, _, _, _, _)
PlayLoop(env, robot, order, i, faults) ==
  IF i > Len(order) THEN Ret(env)
  ELSE Then(PlayTag(env, robot, order[i], faults),
            LAMBDA e : PlayLoop(e, robot, order, i + 1, faults))

\* fault variant of play_for_emotions: 'neutral' is not filtered out
play_for_emotions_Unfiltered(env, robot, emotions, order, faults) ==
  LET e0 == Call(env, "play_for_emotions", emotions, FALSE)
  IN  IF emotions = {} THEN Ret(e0)
      ELSE PlayLoop(e0, robot, order, 1, faults)

\* order: the iteration order of the set of tags
play_for_emotions(env, robot, emotions, order, faults) ==
  LET e0 == Call(env, "play_for_emotions", emotions, FALSE)
      filtered == SelectSeq(order, LAMBDA e : e # neutral)
  IN  IF emotions = {} THEN Ret(e0)
      ELSE IF filtered = <<>> THEN Ret(e0)
      ELSE PlayLoop(e0, robot, filtered, 1, faults)

\* self.app.nao.motion.request(NaoPostureRequest(posture, speed))
PostureRequest(env, posture, faults) ==
  LET e1 == [Call(env, "posture", posture, FALSE) EXCEPT !.np = @ + 1]
  IN  IF <<"post", e1.np>> \in faults THEN Raised(e1) ELSE Ret(e1)

\* fault variant of go_to_crouch: the request is sent without asking
\* whether a robot is available
go_to_crouch_Unguarded(env, robot, faults) ==
  LET e0 == Call(env, "go_to_crouch", "Crouch", FALSE)
  IN  TryExcept(PostureRequest(e0, "Crouch", faults))

go_to_crouch(env, robot, faults) ==
  LET e0 == Call(env, "go_to_crouch", "Crouch", FALSE)
  IN  IF robot THEN TryExcept(PostureRequest(e0, "Crouch", faults)) ELSE Ret(e0)

go_to_posture(env, robot, posture, faults) ==
  LET e0 == Call(env, "go_to_posture", posture, FALSE)
  IN  IF posture = "" THEN Ret(e0)
      ELSE IF robot THEN TryExcept(PostureRequest(e0, posture, faults)) ELSE Ret(e0)

go_to_lying_back(env, robot, faults) == go_to_posture(env, robot, "LyingBack", faults)

go_to_sit_relax(env, robot, faults) == go_to_posture(env, robot, "SitRelax", faults)

go_to_stand(env, robot, faults) == go_to_posture(env, robot, "StandInit", faults)

go_to_lying_belly(env, robot, faults) == go_to_posture(env, robot, "LyingBelly", faults)

(***************************************************************************)
(* nao_basic_motion.py: spin_in_place and change_position.  A move request *)
(* is <<x, theta>> with theta in degrees.                                  *)
(***************************************************************************)
RECURSIVE MoveRequests(_, _, _, _)
MoveRequests(env, reqs, i, faults) ==
  IF i > Len(reqs) THEN Ret(env)
  ELSE LET e1 == [Call(env, "moveTo", reqs[i], FALSE) EXCEPT !.nm = @ + 1]
       IN  IF <<"move", e1.nm>> \in faults THEN Raised(e1) ELSE MoveRequests(e1, reqs, i + 1, faults)

\* spin_in_place(nao, turns, direction): the steps of at most 180 degrees
SpinSteps(quarterTurns, direction) ==
  LET total == 90 * quarterTurns
      n == (total + 179) \div 180
      sign == IF direction = "right" THEN -1 ELSE 1
  IN  [i \in 1..n |-> sign * (IF i < n THEN 180 ELSE total - 180 * (n - 1))]

spin_in_place(env, quarterTurns, direction, faults) ==
  MoveRequests(env, [i \in 1..Len(SpinSteps(quarterTurns, direction)) |->
                       <<0, SpinSteps(quarterTurns, direction)[i]>>], 1, faults)

change_position(env, faults) ==
  Then(Then(spin_in_place(env, 1, "right", faults),
            LAMBDA a : MoveRequests(a, << <<1, 0>> >>, 1, faults)),
       LAMBDA b : spin_in_place(b, 1, "left", faults))

perform_wrap_up_action(env, robot, use_spin, faults) ==
  LET e0 == Call(env, "perform_wrap_up_action", use_spin, FALSE)
  IN  IF robot
      THEN TryExcept(IF use_spin THEN spin_in_place(e0, 4, "left", faults)
                     ELSE change_position(e0, faults))
      ELSE Ret(e0)

\* fault variant of perform_elderly_shutdown: the robot lies down before it
\* changes position
perform_elderly_shutdown_LiesFirst(env, robot, faults) ==
  TryExcept(
    Then(Then(go_to_stand(Call(env, "perform_elderly_shutdown", "elderly", FALSE), robot, faults),
              LAMBDA a : go_to_lying_belly(a, robot, faults)),
         LAMBDA b : IF robot THEN change_position(b, faults) ELSE Ret(b)))

perform_elderly_shutdown(env, robot, faults) ==
  TryExcept(
    Then(Then(go_to_stand(Call(env, "perform_elderly_shutdown", "elderly", FALSE), robot, faults),
              LAMBDA a : IF robot THEN change_position(a, faults) ELSE Ret(a)),
         LAMBDA b : go_to_lying_belly(b, robot, faults)))
\* the iteration orders of a set of tags
Orders(S) ==
  {o \in [1..Cardinality(S) -> S] : \A i, j \in 1..Cardinality(S) : o[i] = o[j] => i = j}

\* The robot requests of one handler that raise: a set of <<kind, ordinal>>
\* with kind "tts", "anim", "post" or "move".  Only a request that is sent
\* can fail: without a robot none is, an empty text is not spoken, only a
\* tag with an animation is played.  nPost and nMove are the posture and
\* move requests the handler can send.
FaultPoints(robot, llm, nPost, nMove) ==
  IF ~robot THEN {}
  ELSE (IF llm # Raise /\ Extract(llm).clean_text # <<>> THEN {<<"tts", 1>>} ELSE {})
       \cup (IF llm # Raise
             THEN {<<"anim", i>> : i \in 1..Cardinality({t \in Extract(llm).tags \ {neutral} :
                                                           Truthy(FindAnimation(t))})}
             ELSE {})
       \cup {<<"post", i>> : i \in 1..nPost}
       \cup {<<"move", i>> : i \in 1..nMove}

Faults(robot, llm, nPost, nMove) ==
  {f \in SUBSET FaultPoints(robot, llm, nPost, nMove) : Cardinality(f) <= MaxFaults}

TagOrders(llm) == Orders(IF llm = Raise THEN {} ELSE Extract(llm).tags)

(***************************************************************************)
(* new_main.py: data                                                       *)
(***************************************************************************)
stages == <<"baby", "child", "teen", "adult", "elderly">>

\* an event of a behaviour file: its key and whether its prompt template
\* contains the "(none yet)" marker that the life memory replaces
Ev(key, marker) == [key |-> key, marker |-> marker]

NoData == [loaded |-> FALSE, events |-> <<>>]

Data(events) == [loaded |-> TRUE, events |-> events]

\* behaviour files the run may find on disk
BehaviourFiles ==
  { [baby    |-> Data(<<Ev("first_smile", TRUE), Ev("first_words", TRUE), Ev("first_steps", TRUE)>>),
     child   |-> Data(<<Ev("school_day", FALSE)>>),
     teen    |-> NoData,
     adult   |-> Data(<<>>),
     elderly |-> NoData],
    [baby    |-> NoData,
     child   |-> Data(<<>>),
     teen    |-> Data(<<Ev("peer_conflict", TRUE)>>),
     adult   |-> Data(<<Ev("life_story_monologue", TRUE), Ev("adult_relationship_pattern", TRUE)>>),
     elderly |-> NoData],
    [baby    |-> Data(<<Ev("feeding", TRUE)>>),
     child   |-> NoData,
     teen    |-> NoData,
     adult   |-> NoData,
     elderly |-> Data(<<Ev("life_review", TRUE), Ev("dying_sequence", TRUE)>>)] }

\* posture requests the turn of a stage can send
StagePostures(stage) == IF stage \in {"baby", "adult", "elderly"} THEN 1 ELSE 0

\* posture and move requests the wrap-up of an event can send
WrapUpPostures(stage, last) ==
  IF stage \in {"baby", "adult"} \/ (stage = "elderly" /\ last) THEN 2 ELSE 0

WrapUpMoves(stage, last) ==
  IF stage = "baby" \/ (last /\ stage # "elderly") THEN 2 ELSE 3

\* the roles chosen in the menus before the performance
parent_role == "parent_artist"

teacher_role == "strict_teacher"

peer_role == "friend_peer"

therapist_role == "therapist_default"

caregiver_role == "caregiver_default"

\* fault variant of pick_role_for_event: an empty therapist or caregiver
\* role is returned as it is
pick_role_for_event_NoFallback(stage_name, event_key, parent, teacher, peer, therapist, caregiver) ==
  IF stage_name = "baby" THEN parent
  ELSE IF stage_name = "child"
       THEN IF event_key = "learning_with_teacher" THEN teacher
            ELSE IF event_key = "peer_interaction" THEN peer
            ELSE parent
  ELSE IF stage_name = "teen"
       THEN IF event_key = "peer_conflict" THEN peer ELSE parent
  ELSE IF stage_name = "adult" THEN therapist
  ELSE IF stage_name = "elderly" THEN caregiver
  ELSE parent

pick_role_for_event(stage_name, event_key, parent, teacher, peer, therapist, caregiver) ==
  IF stage_name = "baby" THEN parent
  ELSE IF stage_name = "child"
       THEN IF event_key = "learning_with_teacher" THEN teacher
            ELSE IF event_key = "peer_interaction" THEN peer
            ELSE parent
  ELSE IF stage_name = "teen"
       THEN IF event_key = "peer_conflict" THEN peer ELSE parent
  ELSE IF stage_name = "adult"
       THEN IF therapist # "" THEN therapist ELSE parent
  ELSE IF stage_name = "elderly"
       THEN IF caregiver # "" THEN caregiver ELSE parent
  ELSE parent

\* the system prompt: which motion instructions, which speaking style, the
\* scene of the event and role, and the memory string put in place of the
\* "(none yet)" marker of the template (only a template with the marker
\* shows it)
construct_base_system_prompt(stage_name, motion_instructions, event, scene_context, life_memory) ==
  [motion |-> motion_instructions,
   style |-> stage_name,
   event |-> event.key,
   scene |-> scene_context,
   memory |-> IF event.marker THEN <<life_memory>> ELSE <<>>]

Msg(role, content) == [role |-> role, content |-> content]

OpeningInstruction(stage_name, event_key) ==
  IF stage_name = "child" /\ event_key = "school_day" THEN "opening line, mention mom"
  ELSE IF stage_name = "child" /\ event_key = "learning_with_teacher" THEN "opening line, mention teacher"
  ELSE "opening line"

wrap_msg == "concluding remark"

\* the record appended to life_memory_log at wrap-up
MemoryRecord(stage_name, event_key) == [stage |-> stage_name, event |-> event_key]

\* fault variant of AppendMemory: the log is replaced by the new record
AppendMemory_Overwrite(log, stage_name, event_key) == << MemoryRecord(stage_name, event_key) >>

AppendMemory(log, stage_name, event_key) == Append(log, MemoryRecord(stage_name, event_key))

\* the first tag, in iteration order, that is neither a gesture nor neutral
PrimaryEmotion(order) ==
  LET c == {i \in 1..Len(order) : ~startswith(order[i], GesturePrefix) /\ order[i] # neutral}
  IN  IF c = {} THEN neutral ELSE order[SetMin(c)]

\* fault variant of listen_and_transcribe: the transcript is returned as
\* Whisper gave it, without strip()
listen_and_transcribe_Unstripped(audio) ==
  IF audio = StreamError \/ audio = TranscriptionError THEN <<>>
  ELSE audio

\* stt_whisper_direct.py listen_and_transcribe: "" on any error or empty
\* transcript, else the stripped transcript
listen_and_transcribe(audio) ==
  IF audio = StreamError \/ audio = TranscriptionError THEN <<>>
  ELSE strip(audio)

\* fault variant of IsQuit: the keyword 'exit' is forgotten
IsQuit_QuitOnly(user_dialogue_) == lower(user_dialogue_) = Str_quit

IsQuit(user_dialogue_) == lower(user_dialogue_) \in {Str_quit, Str_exit}

\* fault variant of StagePosture: the elderly stage lies back like the
\* adult stage
StagePosture_ElderlyLiesBack(env, robot, stage_name, faults) ==
  IF stage_name = "baby" THEN go_to_crouch(env, robot, faults)
  ELSE IF stage_name \in {"adult", "elderly"} THEN go_to_lying_back(env, robot, faults)
  ELSE Ret(env)

\* the implicit posture of a stage after a turn (and at stage entry)
StagePosture(env, robot, stage_name, faults) ==
  IF stage_name = "baby" THEN go_to_crouch(env, robot, faults)
  ELSE IF stage_name = "adult" THEN go_to_lying_back(env, robot, faults)
  ELSE IF stage_name = "elderly" THEN go_to_sit_relax(env, robot, faults)
  ELSE Ret(env)

\* the posture of the wrap-up turn, before and after the wrap-up motion
WrapUpPosture(env, robot, stage_name, last, faults) ==
  IF stage_name = "baby" THEN go_to_crouch(env, robot, faults)
  ELSE IF stage_name = "adult"
       THEN IF last THEN go_to_stand(env, robot, faults)
            ELSE go_to_lying_back(env, robot, faults)
  ELSE Ret(env)

\* fault variant of WrapUpMotion: the form depends on the last event alone,
\* without the branches for the baby and the elderly stage
WrapUpMotion_ByLastEventOnly(env, robot, stage_name, last, faults) ==
  TryExcept(perform_wrap_up_action(env, robot, last, faults))

\* the wrap-up motion
WrapUpMotion(env, robot, stage_name, last, faults) ==
  TryExcept(IF stage_name = "elderly" /\ last
            THEN perform_elderly_shutdown(env, robot, faults)
            ELSE IF stage_name = "baby"
                 THEN perform_wrap_up_action(env, robot, TRUE, faults)
                 ELSE perform_wrap_up_action(env, robot, last, faults))

\* fault variant of Perform: the tags are played before the text is spoken
Perform_PlayFirst(env, robot, raw, emotion_tag, order, block, faults) ==
  Then(TryExcept(play_for_emotions(env, robot, Extract(raw).tags, order, faults)),
       LAMBDA e : speak_text(e, robot, Extract(raw).clean_text, emotion_tag, block, faults))

\* speak the cleaned text, then play the tags: the part of a turn after the
\* reply is known (speak_text is called outside any try of the caller,
\* play_for_emotions inside one)
Perform(env, robot, raw, emotion_tag, order, block, faults) ==
  Then(speak_text(env, robot, Extract(raw).clean_text, emotion_tag, block, faults),
       LAMBDA e : TryExcept(play_for_emotions(e, robot, Extract(raw).tags, order, faults)))

(***************************************************************************)
(* new_main.py: main(), from the start of the life-stages loop             *)
(***************************************************************************)
VARIABLES
  program,          \* the script that runs: "new_main" or "main"
  pc,               \* where main() is.  new_main.py: StageEntry, EventEntry,
                    \* AwaitingUserInput, AwaitingControl; main.py: m_EventEntry,
                    \* m_Turn, m_You, m_StageEnd, m_Gate; both: Done, Crashed (an
                    \* error left main)
  behaviour,        \* the behaviour files on disk
  robot,            \* motion_controller.is_real_robot_available()
  stage_idx,        \* position of stage_name in stages
  event_idx,        \* position of the event in event_items
  is_last_event,
  force_stage_end,
  messages,         \* the history of the current event
  life_memory_log,
  user_dialogue,    \* last result of listen_and_transcribe
  control_input,    \* last answer at the control prompt, stripped
  robot_reply_raw,  \* last reply of a normal turn
  turns,            \* normal turns taken in the current event
  calls,            \* capability calls issued by the last handler, in order
  failed,           \* an external call raised during the last handler
  doneBy,           \* why the run ended: "", "quit", "exhausted"
  m_stage,          \* main.py: position of stage in LIFE_STAGES
  m_event,          \* main.py: position of event in the stage's events
  user_input,       \* main.py: the input of the next LLM call / last typed line
  stage_history,    \* main.py: ContextManager.stage_history
  background_summary,   \* main.py: ContextManager.background_summary
  nao_attachment_style, \* main.py
  extra_turns,      \* main.py: inputs other than quit typed in this stage
  fn_arg,           \* a text function called alone: its argument
  fn_result,        \* ... and what it returned: [op, value]
  is_recording,     \* VADWhisperSTT.is_recording
  recorded_audio,   \* VADWhisperSTT.recorded_audio: the blocks, by arrival number
  pre_buffer,       \* VADWhisperSTT.pre_buffer
  silence_counter,  \* VADWhisperSTT.silence_counter
  arrived,          \* the blocks the stream has delivered: TRUE for speech
  stream,           \* the input stream: "closed", "open", "stopped" (CallbackStop)
  cb_pc,            \* the line the audio callback is at, "idle" between blocks
  poll_pc           \* where listen_and_transcribe is

nm_vars == <<behaviour, stage_idx, event_idx, is_last_event, force_stage_end,
             messages, life_memory_log, user_dialogue, control_input, robot_reply_raw, turns>>

m_vars == <<m_stage, m_event, user_input, stage_history, background_summary,
            nao_attachment_style, extra_turns>>

\* the state of the speech-to-text front end
stt_vars == <<is_recording, recorded_audio, pre_buffer, silence_counter, arrived, stream, cb_pc, poll_pc>>

\* the variables a run of a script never changes
fn_vars == <<emo_list, fn_arg, fn_result, stt_vars>>

\* no function has been called alone
NotCalled == [op |-> "none", value |-> None]

vars == <<program, emo_list, fn_arg, fn_result, m_stage, m_event, user_input, stage_history, background_summary,
          nao_attachment_style, extra_turns, pc, behaviour, robot, stage_idx, event_idx, is_last_event, force_stage_end,
          messages, life_memory_log, user_dialogue, control_input, robot_reply_raw,
          turns, calls, failed, doneBy, is_recording, recorded_audio, pre_buffer, silence_counter,
          arrived, stream, cb_pc, poll_pc>>

NoStyle == "None"

stage_name == stages[stage_idx]

\* fault variant of load_json_data: a file that cannot be loaded yields a
\* non-empty document without events instead of {}
load_json_data_NeverEmpty(stage) == Data(behaviour[stage].events)

\* load_json_data(stage_name)[0]
load_json_data(stage) == behaviour[stage]

event_items == load_json_data(stage_name).events

current_event == event_items[event_idx]

InitNewMain ==
  /\ program = "new_main"
  /\ pc = "StageEntry"
  /\ behaviour \in BehaviourFiles
  /\ stage_idx \in 1..Len(stages)

InitMain ==
  /\ program = "main"
  /\ pc = "m_EventEntry"
  /\ behaviour = CHOOSE b \in BehaviourFiles : TRUE
  /\ stage_idx = 1

\* the variables of main() before the first stage
RunStart ==
  /\ m_stage = 1
  /\ m_event = 1
  /\ user_input = <<>>
  /\ stage_history = <<>>
  /\ background_summary = <<>>
  /\ nao_attachment_style = NoStyle
  /\ extra_turns = 0
  /\ event_idx = 0
  /\ is_last_event = FALSE
  /\ force_stage_end = FALSE
  /\ messages = <<>>
  /\ life_memory_log = <<>>
  /\ user_dialogue = <<>>
  /\ control_input = <<>>
  /\ robot_reply_raw = <<>>
  /\ turns = 0
  /\ calls = <<>>
  /\ failed = FALSE
  /\ doneBy = ""

\* VADWhisperSTT.__init__: nothing is being recorded, no stream is open
SttIdle ==
  /\ is_recording = FALSE
  /\ recorded_audio = <<>>
  /\ pre_buffer = <<>>
  /\ silence_counter = 0
  /\ arrived = <<>>
  /\ stream = "closed"
  /\ cb_pc = "idle"
  /\ poll_pc = "idle"

Init ==
  /\ InitNewMain \/ InitMain
  /\ SttIdle
  /\ robot \in BOOLEAN
  /\ RunStart
  /\ emo_list = "repository"
  /\ fn_arg = <<>>
  /\ fn_result = NotCalled

\* the for loop over stages moves on: next stage, or the run is complete
NextStage ==
  IF stage_idx < Len(stages)
  THEN /\ pc' = "StageEntry"
       /\ stage_idx' = stage_idx + 1
       /\ doneBy' = doneBy
  ELSE /\ pc' = "Done"
       /\ stage_idx' = stage_idx
       /\ doneBy' = "exhausted"

\* an error left main(): the run is over
Crash ==
  /\ pc' = "Crashed"
  /\ UNCHANGED <<stage_idx, doneBy>>

\* fault variant of EventExit: force_stage_end is not looked at
EventExit_IgnoresForce ==
  IF event_idx >= Len(event_items)
  THEN NextStage /\ UNCHANGED event_idx
  ELSE /\ pc' = "EventEntry"
       /\ event_idx' = event_idx + 1
       /\ UNCHANGED <<stage_idx, doneBy>>

\* fault variant of EventExit: the event loop does not advance and enters
\* the same event again
EventExit_SameEvent ==
  IF force_stage_end \/ event_idx >= Len(event_items)
  THEN NextStage /\ UNCHANGED event_idx
  ELSE /\ pc' = "EventEntry"
       /\ UNCHANGED <<event_idx, stage_idx, doneBy>>

\* the end of the event loop body: sleep, then the next event, or the next
\* stage after the last event or when force_stage_end is set
EventExit ==
  IF force_stage_end \/ event_idx >= Len(event_items)
  THEN NextStage /\ UNCHANGED event_idx
  ELSE /\ pc' = "EventEntry"
       /\ event_idx' = event_idx + 1
       /\ UNCHANGED <<stage_idx, doneBy>>

\* lines 407-435: load the stage's data, skip the stage without it, take the
\* stage posture, start the event loop
StageEntry ==
  /\ program = "new_main"
  /\ pc = "StageEntry"
  /\ \E faults \in Faults(robot, Raise, StagePostures(stage_name), 0) :
       LET beh == load_json_data(stage_name)
           g == StagePosture(Env0, robot, stage_name, faults)
       IN  IF ~beh.loaded
           THEN /\ NextStage
                /\ calls' = <<>>
                /\ failed' = FALSE
                /\ UNCHANGED <<event_idx, force_stage_end>>
           ELSE /\ calls' = g.env.calls
                /\ failed' = g.env.failed
                /\ IF g.raised THEN Crash /\ UNCHANGED <<event_idx, force_stage_end>>
                   ELSE /\ force_stage_end' = FALSE
                        /\ IF beh.events = <<>>
                           THEN NextStage /\ UNCHANGED event_idx
                           ELSE /\ pc' = "EventEntry"
                                /\ event_idx' = 1
                                /\ UNCHANGED <<stage_idx, doneBy>>
  /\ UNCHANGED <<program, fn_vars, m_vars, behaviour, robot, is_last_event, messages, life_memory_log,
                 user_dialogue, control_input, robot_reply_raw, turns>>

\* fault variant of InitialMessages: the opening-line instruction is not
\* appended to the new history
InitialMessages_NoInstruction(stage, event, log) ==
  << Msg("system", construct_base_system_prompt(
                     stage,
                     IF stage = "baby" THEN "BABY_MOTION_SYSTEM_PROMPT" ELSE "MOTION_SYSTEM_PROMPT",
                     event,
                     pick_role_for_event(stage, event.key, parent_role, teacher_role,
                                         peer_role, therapist_role, caregiver_role),
                     log)) >>

\* lines 472-493: the history a new event starts with
InitialMessages(stage, event, log) ==
  << Msg("system", construct_base_system_prompt(
                     stage,
                     IF stage = "baby" THEN "BABY_MOTION_SYSTEM_PROMPT" ELSE "MOTION_SYSTEM_PROMPT",
                     event,
                     pick_role_for_event(stage, event.key, parent_role, teacher_role,
                                         peer_role, therapist_role, caregiver_role),
                     log)),
     Msg("system", OpeningInstruction(stage, event.key)) >>

\* lines 495-525: the opening line, everything inside one try
OpeningTurn(env, rob, stage, msgs, llm, order, faults) ==
  LET e1 == Call(env, "llm", [messages |-> msgs, max_tokens |-> 200], FALSE)
  IN  IF llm = Raise
      THEN [env |-> Caught(e1), messages |-> msgs]
      ELSE [env |-> TryExcept(
                      Then(Perform(e1, rob, llm, PrimaryEmotion(order), order, FALSE, faults),
                           LAMBDA e : StagePosture(e, rob, stage, faults))).env,
            messages |-> Append(msgs, Msg("assistant", llm))]

\* lines 437-528: one event begins
EventEntry ==
  /\ program = "new_main"
  /\ pc = "EventEntry"
  /\ \E llm \in LLMOutcomes :
     \E order \in TagOrders(llm) :
     \E faults \in Faults(robot, llm, StagePostures(stage_name), 0) :
     \E r \in {OpeningTurn(Env0, robot, stage_name,
                             InitialMessages(stage_name, current_event, life_memory_log),
                             llm, order, faults)} :
       LET first_words == stage_name = "baby" /\ current_event.key = "first_words"
       IN  /\ is_last_event' = (event_idx = Len(event_items) \/ first_words)
           /\ force_stage_end' = (force_stage_end \/ first_words)
           /\ messages' = r.messages
           /\ calls' = r.env.calls
           /\ failed' = r.env.failed
  /\ pc' = "AwaitingUserInput"
  /\ turns' = 0
  /\ UNCHANGED <<program, fn_vars, m_vars, behaviour, robot, stage_idx, event_idx, life_memory_log,
                 user_dialogue, control_input, robot_reply_raw, doneBy>>

\* how a normal turn ends: an error of a call made outside any try leaves
\* main ("raise"), otherwise the control prompt follows ("ok")
TurnResult(r, msgs) ==
  [env |-> r.env, messages |-> msgs, outcome |-> IF r.raised THEN "raise" ELSE "ok"]

\* fault variant of NormalTurn: the assistant turn stores the cleaned text
\* instead of the raw reply
NormalTurn_StoresCleanText(env, rob, stage, msgs, utterance, llm, order, faults) ==
  LET m1 == Append(msgs, Msg("user", utterance))
      e1 == Call(env, "llm", [messages |-> m1, max_tokens |-> 1000], FALSE)
  IN  IF llm = Raise
      THEN [env |-> Caught(e1), messages |-> m1, outcome |-> "break"]
      ELSE TurnResult(Then(Perform(e1, rob, llm, PrimaryEmotion(order), order, FALSE, faults),
                           LAMBDA e : StagePosture(e, rob, stage, faults)),
                      Append(m1, Msg("assistant", Extract(llm).clean_text)))

\* lines 543-584: the reply to a user utterance
NormalTurn(env, rob, stage, msgs, utterance, llm, order, faults) ==
  LET m1 == Append(msgs, Msg("user", utterance))
      e1 == Call(env, "llm", [messages |-> m1, max_tokens |-> 1000], FALSE)
  IN  IF llm = Raise
      THEN [env |-> Caught(e1), messages |-> m1, outcome |-> "break"]
      ELSE TurnResult(Then(Perform(e1, rob, llm, PrimaryEmotion(order), order, FALSE, faults),
                           LAMBDA e : StagePosture(e, rob, stage, faults)),
                      Append(m1, Msg("assistant", llm)))

\* lines 530-584: one pass of the conversation loop, from listening to the
\* control prompt
UserTurn ==
  /\ program = "new_main"
  /\ pc = "AwaitingUserInput"
  /\ \E audio \in AudioOutcomes :
       LET heard == listen_and_transcribe(audio)
       IN  /\ user_dialogue' = heard
           /\ IF heard = <<>>
              THEN /\ calls' = <<>>
                   /\ failed' = (audio \in {StreamError, TranscriptionError})
                   /\ UNCHANGED <<pc, stage_idx, event_idx, messages, robot_reply_raw, turns, doneBy>>
              ELSE IF IsQuit(heard)
              THEN /\ pc' = "Done"
                   /\ doneBy' = "quit"
                   /\ calls' = <<>>
                   /\ failed' = FALSE
                   /\ UNCHANGED <<stage_idx, event_idx, messages, robot_reply_raw, turns>>
              ELSE \E llm \in LLMOutcomes :
                   \E order \in TagOrders(llm) :
                   \E faults \in Faults(robot, llm, StagePostures(stage_name), 0) :
                   \E r \in {NormalTurn(Env0, robot, stage_name, messages, heard,
                                          llm, order, faults)} :
                         /\ messages' = r.messages
                         /\ calls' = r.env.calls
                         /\ failed' = r.env.failed
                         /\ robot_reply_raw' = (IF llm = Raise THEN robot_reply_raw ELSE llm)
                         /\ turns' = turns + 1
                         /\ IF r.outcome = "break" THEN EventExit
                            ELSE IF r.outcome = "raise" THEN Crash /\ UNCHANGED event_idx
                            ELSE /\ pc' = "AwaitingControl"
                                 /\ UNCHANGED <<stage_idx, event_idx, doneBy>>
  /\ UNCHANGED <<program, fn_vars, m_vars, behaviour, robot, is_last_event, force_stage_end, life_memory_log, control_input>>

\* how the wrap-up ends: the record is appended at the end of the try block,
\* so only when nothing before it raised
WrapUpResult(r, msgs, log, stage, event_key) ==
  [env |-> r.env, messages |-> msgs,
   log |-> IF r.raised THEN log ELSE AppendMemory(log, stage, event_key)]

\* lines 592-660: the wrap-up turn, everything inside one try
WrapUp(env, rob, stage, last, msgs, log, event_key, llm, order, faults) ==
  LET m1 == Append(msgs, Msg("system", wrap_msg))
      e1 == Call(env, "llm", [messages |-> m1, max_tokens |-> 60], FALSE)
  IN  IF llm = Raise
      THEN [env |-> Caught(e1), messages |-> m1, log |-> log]
      ELSE WrapUpResult(
             Then(Then(Then(Perform(e1, rob, llm, neutral, order, TRUE, faults),
                            LAMBDA e : WrapUpPosture(e, rob, stage, last, faults)),
                       LAMBDA e : WrapUpMotion(e, rob, stage, last, faults)),
                  LAMBDA e : WrapUpPosture(e, rob, stage, last, faults)),
             m1, log, stage, event_key)

\* fault variant of ControlChoice: every answer other than '0' wraps up
ControlChoice_ElseWrapsUp(answer) ==
  IF answer = <<"0">> THEN "continue" ELSE "wrap_up"

\* lines 588-592 and 665: what an answer at the control prompt selects
ControlChoice(answer) ==
  IF answer = <<"0">> THEN "continue"
  ELSE IF answer = <<"1">> THEN "wrap_up"
  ELSE "invalid"

\* lines 586-671: one answer at the control prompt; "1" wraps the event up
\* and leaves the event loop
Control ==
  /\ program = "new_main"
  /\ pc = "AwaitingControl"
  /\ \E typed \in ControlInputs :
       /\ control_input' = strip(typed)
       /\ IF ControlChoice(control_input') = "continue"
          THEN /\ turns < MaxTurns
               /\ pc' = "AwaitingUserInput"
               /\ calls' = <<>>
               /\ failed' = FALSE
               /\ UNCHANGED <<stage_idx, event_idx, messages, life_memory_log, doneBy>>
          ELSE IF ControlChoice(control_input') = "wrap_up"
          THEN \E llm \in LLMOutcomes :
               \E order \in TagOrders(llm) :
               \E faults \in Faults(robot, llm, WrapUpPostures(stage_name, is_last_event),
                                      WrapUpMoves(stage_name, is_last_event)) :
               \E r \in {WrapUp(Env0, robot, stage_name, is_last_event, messages,
                                  life_memory_log, current_event.key,
                                  llm, order, faults)} :
                     /\ messages' = r.messages
                     /\ life_memory_log' = r.log
                     /\ calls' = r.env.calls
                     /\ failed' = r.env.failed
                     /\ EventExit
          ELSE /\ calls' = <<>>
               /\ failed' = FALSE
               /\ UNCHANGED <<pc, stage_idx, event_idx, messages, life_memory_log, doneBy>>
  /\ UNCHANGED <<program, fn_vars, m_vars, behaviour, robot, is_last_event, force_stage_end, user_dialogue,
                 robot_reply_raw, turns>>


(***************************************************************************)
(* main.py                                                                 *)
(***************************************************************************)
LIFE_STAGES == <<"CHILD", "TEEN", "ADULT", "ELDERLY">>

ATTACHMENT_STYLES == {"secure", "anxious", "avoidant", "disorganized"}

EVENTS_PER_STAGE ==
  [CHILD   |-> <<"school_day", "learning_with_teacher", "peer_interaction", "failure_comfort">>,
   TEEN    |-> <<"rebellion_argument", "peer_conflict", "graduation_reflection">>,
   ADULT   |-> <<"life_story_monologue", "adult_relationship_pattern">>,
   ELDERLY |-> <<"life_review", "dying_sequence">>]

m_stage_name == LIFE_STAGES[m_stage]

m_events == EVENTS_PER_STAGE[m_stage_name]

m_is_last_event == m_event = Len(m_events)

\* what the user can type at the "You:" prompt; EOF stands for EOFError or
\* KeyboardInterrupt
EOF == <<"EOF">>

MainInputs == { <<"h","i">>, <<" ","Q","u","i","t"," ">>, <<>>, EOF }

\* what the completion of a turn can deliver in main.py
MainLLMOutcomes ==
  { Raise, NoChoices,
    <<"[","S","a","d","]"," ","H","i"," ","[","g","e","s","t","u","r","e","_","h","e","y","]">> }

Str_next == <<"n","e","x","t">>

GateInputs == { <<" ","N","e","x","t">>, <<"n","o">> }

\* the reply of the summary call: an error, a reply without choices, or a
\* text; of a text only what the parsing looks at is kept:
\*   json    - "none" (no {...} in the text), "invalid" (json.loads raises)
\*             or "object"
\*   summary - <<>> when the object has no "summary", else <<its value>>
\*   style   - <<>> when it has no "next_attachment_style", else <<its value>>
SummaryReply(json, summary, style) == [json |-> json, summary |-> summary, style |-> style]

\* summaries the LLM writes of the history of a stage
StageText ==
  [CHILD |-> <<"C","H","I","L","D">>, TEEN |-> <<"T","E","E","N">>, ADULT |-> <<"A","D","U","L","T">>, ELDERLY |-> <<"E","L","D","E","R","L","Y">>]

Comforted(stage) == StageText[stage] \o <<":"," ","c","o","m","f","o","r","t","e","d">>

Ignored(stage) == StageText[stage] \o <<":"," ","i","g","n","o","r","e","d">>

SummaryOutcomes ==
  [stage \in DOMAIN StageText |->
    { SummaryReply("raise", <<>>, <<>>),
      SummaryReply("nochoices", <<>>, <<>>),
      SummaryReply("none", <<>>, <<>>),
      SummaryReply("invalid", <<>>, <<>>),
      SummaryReply("object", <<Comforted(stage)>>, <<"anxious">>),
      SummaryReply("object", <<Ignored(stage)>>, <<"chaotic">>),
      SummaryReply("object", <<>>, <<"avoidant">>),
      SummaryReply("object", <<Ignored(stage)>>, <<>>) }]

\* the texts main.py puts in place of a summary
FirstStageBackground ==
  <<"T","h","i","s"," ","i","s"," ","t","h","e"," ","f","i","r","s","t"," ","s","t","a","g","e",","," ","t","h","e","r","e"," ","i","s"," ","n","o"," ","b","a","c","k","g","r","o","u","n","d",".">>

NoSummaryProvided ==
  <<"N","o"," ","s","u","m","m","a","r","y"," ","w","a","s"," ","p","r","o","v","i","d","e","d",".">>

NoSummaryGenerated ==
  <<"N","o"," ","s","u","m","m","a","r","y"," ","c","o","u","l","d"," ","b","e"," ","g","e","n","e","r","a","t","e","d"," ","f","o","r"," ","t","h","e"," ","p","r","e","v","i","o","u","s"," ","s","t","a","g","e",".">>

SummarizationError ==
  <<"A","n"," ","e","r","r","o","r"," ","o","c","c","u","r","r","e","d"," ","d","u","r","i","n","g"," ","s","u","m","m","a","r","i","z","a","t","i","o","n",".">>

\* the current_system_prompt of a stage (lines 288-309)
SystemPrompt(stage, style, summary) ==
  [stage |-> stage,
   style |-> style,
   background |-> IF summary # <<>> THEN summary ELSE FirstStageBackground]

\* initial_event_prompt (lines 318-319)
InitialEventPrompt(stage, style, event) == <<"The scene begins.", stage, style, event>>

\* call_deepseek_with_context: the reply, or the fallback reply when the
\* call raises or has no choices
call_deepseek_with_context(env, system_prompt, history, input, llm) ==
  LET msgs == <<Msg("system", system_prompt)>> \o history \o <<Msg("user", input)>>
      e1 == Call(env, "llm", [messages |-> msgs, max_tokens |-> 0], FALSE)
  IN  IF llm = Raise THEN [env |-> Caught(e1), reply |-> FallbackReply]
      ELSE IF llm = NoChoices THEN [env |-> e1, reply |-> FallbackReply]
      ELSE [env |-> e1, reply |-> llm]

\* ContextManager.add_message
add_message(history, role, content) == Append(history, Msg(role, content))

\* fault variant of summarize_and_determine_next_style: the style of the
\* reply is returned without being looked up in ATTACHMENT_STYLES
summarize_and_determine_next_style_Unvalidated(history, summary, out) ==
  LET next_style == IF out.style = <<>> THEN "secure" ELSE out.style[1]
  IN  IF history = <<>>
      THEN [style |-> "secure", summary |-> summary, history |-> history, called |-> FALSE]
      ELSE IF out.json = "object"
      THEN [style |-> next_style,
            summary |-> IF out.summary = <<>> THEN NoSummaryProvided ELSE out.summary[1],
            history |-> <<>>, called |-> TRUE]
      ELSE IF out.json = "nochoices"
      THEN [style |-> "secure",
            summary |-> NoSummaryGenerated,
            history |-> <<>>, called |-> TRUE]
      ELSE [style |-> "secure", summary |-> SummarizationError,
            history |-> <<>>, called |-> TRUE]

\* fault variant of summarize_and_determine_next_style: a reply with a
\* missing or invalid field is treated like a reply that cannot be parsed
summarize_and_determine_next_style_AllOrNothing(history, summary, out) ==
  IF history = <<>>
  THEN [style |-> "secure", summary |-> summary, history |-> history, called |-> FALSE]
  ELSE IF out.json = "object" /\ out.summary # <<>> /\ out.style # <<>>
          /\ out.style[1] \in ATTACHMENT_STYLES
  THEN [style |-> out.style[1], summary |-> out.summary[1], history |-> <<>>, called |-> TRUE]
  ELSE IF out.json = "nochoices"
  THEN [style |-> "secure", summary |-> NoSummaryGenerated, history |-> <<>>, called |-> TRUE]
  ELSE [style |-> "secure", summary |-> SummarizationError, history |-> <<>>, called |-> TRUE]

\* fault variant of summarize_and_determine_next_style: the history is
\* cleared after a reply that was used, not in a finally clause
summarize_and_determine_next_style_NoFinally(history, summary, out) ==
  LET next_style == IF out.style = <<>> THEN "secure" ELSE out.style[1]
  IN  IF history = <<>>
      THEN [style |-> "secure", summary |-> summary, history |-> history, called |-> FALSE]
      ELSE IF out.json = "object"
      THEN [style |-> IF next_style \in ATTACHMENT_STYLES THEN next_style ELSE "secure",
            summary |-> IF out.summary = <<>> THEN NoSummaryProvided ELSE out.summary[1],
            history |-> <<>>, called |-> TRUE]
      ELSE IF out.json = "nochoices"
      THEN [style |-> "secure", summary |-> NoSummaryGenerated, history |-> history, called |-> TRUE]
      ELSE [style |-> "secure", summary |-> SummarizationError, history |-> history, called |-> TRUE]

\* ContextManager.summarize_and_determine_next_style: the next style, the
\* new background summary and the (cleared) stage history
summarize_and_determine_next_style(history, summary, out) ==
  LET next_style == IF out.style = <<>> THEN "secure" ELSE out.style[1]
  IN  IF history = <<>>
      THEN [style |-> "secure", summary |-> summary, history |-> history, called |-> FALSE]
      ELSE IF out.json = "object"
      THEN [style |-> IF next_style \in ATTACHMENT_STYLES THEN next_style ELSE "secure",
            summary |-> IF out.summary = <<>> THEN NoSummaryProvided ELSE out.summary[1],
            history |-> <<>>, called |-> TRUE]
      ELSE IF out.json = "nochoices"
      THEN [style |-> "secure",
            summary |-> NoSummaryGenerated,
            history |-> <<>>, called |-> TRUE]
      ELSE [style |-> "secure", summary |-> SummarizationError,
            history |-> <<>>, called |-> TRUE]

\* lines 313-322: an event begins
MainEventEntry ==
  /\ program = "main"
  /\ pc = "m_EventEntry"
  /\ user_input' = InitialEventPrompt(m_stage_name, nao_attachment_style, m_events[m_event])
  /\ pc' = "m_Turn"
  /\ calls' = <<>>
  /\ failed' = FALSE
  /\ UNCHANGED <<program, fn_vars, nm_vars, robot, doneBy, m_stage, m_event, stage_history,
                 background_summary, nao_attachment_style, extra_turns>>

\* next(iter(tags), "neutral")
FirstTag(order) == IF order = <<>> THEN neutral ELSE order[1]

\* lines 325-337: one reply
MainTurn ==
  /\ program = "main"
  /\ pc = "m_Turn"
  /\ \E llm \in MainLLMOutcomes :
     \E r \in {call_deepseek_with_context(
                  Env0, SystemPrompt(m_stage_name, nao_attachment_style, background_summary),
                  stage_history, user_input, llm)} :
     \E x \in {Extract(r.reply)} :
     \E order \in Orders(x.tags) :
     \E faults \in Faults(robot, r.reply, 0, 0) :
     \E s \in {speak_text(r.env, robot, x.clean_text, FirstTag(order), FALSE, faults)} :
     \E p \in {IF s.raised THEN s
                ELSE play_for_emotions(s.env, robot, x.tags, order, faults)} :
       /\ stage_history' = add_message(add_message(stage_history, "user", user_input),
                                       "assistant", x.clean_text)
       /\ calls' = p.env.calls
       /\ failed' = p.env.failed
       /\ pc' = IF p.raised THEN "Crashed" ELSE "m_You"
  /\ UNCHANGED <<program, fn_vars, nm_vars, robot, doneBy, m_stage, m_event, user_input,
                 background_summary, nao_attachment_style, extra_turns>>

\* NaoBasicMotion.change_position of main.py
basic_motion_change_position(env) == Call(env, "basic_motion.change_position", "", FALSE)

\* lines 339-359: one line typed at the "You:" prompt
MainYou ==
  /\ program = "main"
  /\ pc = "m_You"
  /\ \E typed \in MainInputs :
       LET line == IF typed = EOF THEN Str_quit ELSE strip(typed)
       IN  /\ user_input' = line
           /\ IF lower(line) = Str_quit
              THEN /\ calls' = (IF m_is_last_event THEN Env0
                                ELSE basic_motion_change_position(Env0)).calls
                   /\ IF m_is_last_event
                      THEN pc' = "m_StageEnd" /\ m_event' = m_event
                      ELSE pc' = "m_EventEntry" /\ m_event' = m_event + 1
                   /\ UNCHANGED extra_turns
              ELSE /\ extra_turns < MaxExtraTurns
                   /\ extra_turns' = extra_turns + 1
                   /\ calls' = <<>>
                   /\ pc' = "m_Turn"
                   /\ UNCHANGED m_event
  /\ failed' = FALSE
  /\ UNCHANGED <<program, fn_vars, nm_vars, robot, doneBy, m_stage, stage_history,
                 background_summary, nao_attachment_style>>

\* lines 361-367: the stage is summarized
MainStageEnd ==
  /\ program = "main"
  /\ pc = "m_StageEnd"
  /\ \E out \in SummaryOutcomes[m_stage_name] :
     \E r \in {summarize_and_determine_next_style(stage_history, background_summary, out)} :
           /\ nao_attachment_style' = r.style
           /\ background_summary' = r.summary
           /\ stage_history' = r.history
           /\ calls' = IF r.called
                       THEN Call(Env0, "llm", [messages |-> stage_history, max_tokens |-> 0,
                                               reply |-> out], FALSE).calls
                       ELSE <<>>
           /\ failed' = (r.called /\ out.json = "raise")
  /\ IF m_stage < Len(LIFE_STAGES)
     THEN pc' = "m_Gate" /\ doneBy' = doneBy
     ELSE pc' = "Done" /\ doneBy' = "exhausted"
  /\ UNCHANGED <<program, fn_vars, nm_vars, robot, m_stage, m_event, user_input, extra_turns>>

\* lines 367-369: wait for 'next' between stages
MainGate ==
  /\ program = "main"
  /\ pc = "m_Gate"
  /\ \E typed \in GateInputs :
       IF lower(strip(typed)) = Str_next
       THEN /\ pc' = "m_EventEntry"
            /\ m_stage' = m_stage + 1
            /\ m_event' = 1
            /\ extra_turns' = 0
       ELSE UNCHANGED <<pc, m_stage, m_event, extra_turns>>
  /\ calls' = <<>>
  /\ failed' = FALSE
  /\ UNCHANGED <<program, fn_vars, nm_vars, robot, doneBy, user_input, stage_history,
                 background_summary, nao_attachment_style>>

Next ==
  \/ StageEntry
  \/ EventEntry
  \/ UserTurn
  \/ Control
  \/ MainEventEntry
  \/ MainTurn
  \/ MainYou
  \/ MainStageEnd
  \/ MainGate

Spec == Init /\ [][Next]_vars
(***************************************************************************)
(* demo_desktop_gpt_life_Stages.py: the parent-role menu of                *)
(* BabySimulation.run                                                      *)
(***************************************************************************)
DigitChars == <<"0","1","2","3","4","5","6","7","8","9">>

IsDigit(c) == \E i \in 1..10 : DigitChars[i] = c

DigitValue(c) == (CHOOSE i \in 1..10 : DigitChars[i] = c) - 1

RECURSIVE DecimalValue(_)
DecimalValue(ds) ==
  IF ds = <<>> THEN 0
  ELSE 10 * DecimalValue(SubSeq(ds, 1, Len(ds) - 1)) + DigitValue(ds[Len(ds)])

\* int(text) of a text of blanks, signs, digits and letters: blanks around
\* the number are dropped, one sign may lead, digits must follow; anything
\* else is a ValueError
int(text) ==
  LET t == strip(text)
      signed == t # <<>> /\ t[1] \in {"+", "-"}
      ds == IF signed THEN Tail(t) ELSE t
  IN  IF ds # <<>> /\ \A i \in 1..Len(ds) : IsDigit(ds[i])
      THEN [ok |-> TRUE,
            value |-> IF signed /\ t[1] = "-" THEN 0 - DecimalValue(ds) ELSE DecimalValue(ds)]
      ELSE [ok |-> FALSE, value |-> 0]

\* list[i] of Python: a negative index counts from the end; outside
\* -len..len-1 it is an IndexError
ListIndex(list, i) ==
  IF i >= 0 /\ i < Len(list) THEN [ok |-> TRUE, value |-> list[i + 1]]
  ELSE IF i < 0 /\ i >= 0 - Len(list) THEN [ok |-> TRUE, value |-> list[Len(list) + i + 1]]
  ELSE [ok |-> FALSE, value |-> ""]

\* lines 81-87: the role for what was typed at 'Enter number of parent role'
select_parent_role(available_roles, selection) ==
  LET n == int(selection)
      r == ListIndex(available_roles, n.value - 1)
  IN  IF n.ok /\ r.ok THEN r.value ELSE "parent_artist"

\* the keys of the role file, in file order: lists the file may hold
RoleLists ==
  { <<>>,
    <<"parent_artist">>,
    <<"parent_artist", "parent_strict", "parent_absent">>,
    <<"parent_strict", "parent_artist">> }

\* what the user may type at the menu
MenuSelections ==
  { <<"1">>, <<"2">>, <<"3">>, <<"4">>, <<"0">>, <<"-","1">>, <<"-","2">>, <<"-","3">>, <<"-","4">>,
    <<"1","0">>, <<" ","2"," ">>, <<"+","2">>, <<"a">>, <<>>, <<"2",".","0">>, <<"-">>, <<"1"," ","2">> }


(***************************************************************************)
(* new_main.py under a cooperating user: every prompt is answered with a   *)
(* non-empty utterance sooner or later, and every event is wrapped up      *)
(* sooner or later.  The handlers themselves always run to their end: the  *)
(* for loops of main() advance by themselves.                              *)
(***************************************************************************)
\* stt.listen_and_transcribe() returns a non-empty utterance
UserSpeaks == UserTurn /\ user_dialogue' # <<>>

\* the operator answers '1' at the control prompt
ControlWrapUp == Control /\ ControlChoice(control_input') = "wrap_up"

FairSpec ==
  /\ Spec
  /\ WF_vars(StageEntry)
  /\ WF_vars(EventEntry)
  /\ SF_vars(UserSpeaks)
  /\ SF_vars(ControlWrapUp)

(***************************************************************************)
(* The text functions called alone: the state holds one argument, the list *)
(* emo_list.ALL_ANIMATIONS in use and, after the call, the result.         *)
(***************************************************************************)
\* the arguments: a list and a text
\* the arguments of pick_role_for_event: a stage name, an event key and the
\* five roles, each chosen or empty
StageNames == {stages[i] : i \in 1..Len(stages)} \cup {"afterlife"}

EventKeys == {"learning_with_teacher", "peer_interaction", "peer_conflict", "first_steps"}

RoleCases ==
  StageNames \X EventKeys \X {parent_role, ""} \X {teacher_role, ""} \X {peer_role, ""}
    \X {therapist_role, ""} \X {caregiver_role, ""}

FnCases ==
  ({"repository"} \X (ReplyTexts \cup RoleCases \cup MenuSelections))
    \cup (CatalogNames \X (TagInputs \cup PlayReplies))
    \cup UNION {{c} \X NamesFor[c] : c \in CatalogNames}

FnInit ==
  /\ program = "functions"
  /\ pc = "Idle"
  /\ behaviour = CHOOSE b \in BehaviourFiles : TRUE
  /\ stage_idx = 1
  /\ RunStart
  /\ \E c \in FnCases : emo_list = c[1] /\ fn_arg = c[2]
  /\ robot \in BOOLEAN
  /\ ~robot => fn_arg \in PlayReplies
  /\ fn_result = NotCalled
  /\ SttIdle

Returned(op, value) ==
  /\ fn_result' = [op |-> op, value |-> value]
  /\ UNCHANGED <<program, pc, emo_list, fn_arg, robot, nm_vars, m_vars, doneBy, stt_vars>>

ApplyExtract ==
  /\ program = "functions" /\ fn_result.op = "none"
  /\ fn_arg \in ReplyTexts \cup PlayReplies
  /\ Returned("extract_motion_tags_and_clean_text", extract_motion_tags_and_clean_text(fn_arg))
  /\ UNCHANGED <<calls, failed>>

\* the function is called again on the cleaned text it returned
ApplyExtractAgain ==
  /\ program = "functions" /\ fn_result.op = "extract_motion_tags_and_clean_text"
  /\ Returned("extract_motion_tags_and_clean_text again",
              [first |-> fn_result.value,
               second |-> extract_motion_tags_and_clean_text(fn_result.value.clean_text)])
  /\ UNCHANGED <<calls, failed>>

ApplyNormalize ==
  /\ program = "functions" /\ fn_result.op = "none"
  /\ fn_arg \in TagInputs
  /\ Returned("_normalize_tag", _normalize_tag(fn_arg))
  /\ UNCHANGED <<calls, failed>>

ApplyFind ==
  /\ program = "functions" /\ fn_result.op = "none"
  /\ fn_arg \in TagInputs
  /\ Returned("_find_animation_for_tag", _find_animation_for_tag(Catalogs[emo_list], fn_arg))
  /\ UNCHANGED <<calls, failed>>

ApplyResolve ==
  /\ program = "functions" /\ fn_result.op = "none"
  /\ fn_arg \in NamesFor[emo_list]
  /\ Returned("_resolve_animation_name", _resolve_animation_name(Catalogs[emo_list], fn_arg))
  /\ UNCHANGED <<calls, failed>>

ApplyStandaloneResolve ==
  /\ program = "functions" /\ fn_result.op = "none"
  /\ fn_arg \in NamesFor[emo_list]
  /\ Returned("standalone_resolve_animation_name",
              standalone_resolve_animation_name(Catalogs[emo_list], fn_arg))
  /\ UNCHANGED <<calls, failed>>

\* the tags of a reply are played, as new_main.py does after a reply
ApplyPlay ==
  /\ program = "functions" /\ fn_result.op = "none"
  /\ fn_arg \in PlayReplies
  /\ \E order \in TagOrders(fn_arg) :
     \E faults \in Faults(robot, fn_arg, 0, 0) :
     \E r \in {play_for_emotions(Env0, robot, Extract(fn_arg).tags, order, faults)} :
        /\ calls' = r.env.calls
        /\ failed' = r.env.failed
        /\ Returned("play_for_emotions", [order |-> order, faults |-> faults, raised |-> r.raised])

ApplyPickRole ==
  /\ program = "functions" /\ fn_result.op = "none"
  /\ fn_arg \in RoleCases
  /\ Returned("pick_role_for_event",
              pick_role_for_event(fn_arg[1], fn_arg[2], fn_arg[3], fn_arg[4], fn_arg[5],
                                  fn_arg[6], fn_arg[7]))
  /\ UNCHANGED <<calls, failed>>

(***************************************************************************)
(* The operations of EmotionMotionController called alone, with and        *)
(* without a robot.  With a robot any one request can raise.               *)
(***************************************************************************)
\* the result of an operation: whether it raised, and the requests that
\* were set to raise
Outcome(r, faults) == [raised |-> r.raised, faults |-> faults]

\* posture requests and move requests one operation sends at most
MaxPostures == 2

MaxMoves == 3

\* speak_text(text, emotion_tag, block) on the text and a tag of a reply
ApplySpeak ==
  /\ program = "functions" /\ fn_result.op = "none"
  /\ fn_arg \in PlayReplies
  /\ \E tag \in {None} \cup Extract(fn_arg).tags :
     \E block \in BOOLEAN :
     \E faults \in Faults(robot, fn_arg, 0, 0) :
     \E r \in {speak_text(Env0, robot, Extract(fn_arg).clean_text, tag, block, faults)} :
        /\ calls' = r.env.calls
        /\ failed' = r.env.failed
        /\ Returned("speak_text", Outcome(r, faults))

Postures == {"", "Crouch", "LyingBack", "SitRelax", "StandInit", "LyingBelly"}

\* go_to_crouch, or go_to_posture directly or through one of its wrappers
GoTo(op, env, posture, faults) ==
  CASE op = "go_to_crouch" -> go_to_crouch(env, robot, faults)
    [] op = "go_to_posture" -> go_to_posture(env, robot, posture, faults)
    [] op = "go_to_lying_back" -> go_to_lying_back(env, robot, faults)
    [] op = "go_to_sit_relax" -> go_to_sit_relax(env, robot, faults)
    [] op = "go_to_stand" -> go_to_stand(env, robot, faults)
    [] op = "go_to_lying_belly" -> go_to_lying_belly(env, robot, faults)

PostureCalls == {"go_to_crouch", "go_to_posture", "go_to_lying_back", "go_to_sit_relax",
                 "go_to_stand", "go_to_lying_belly"}

ApplyPosture ==
  /\ program = "functions" /\ fn_result.op = "none"
  /\ fn_arg \in PlayReplies
  /\ \E op \in PostureCalls :
     \E posture \in (IF op = "go_to_posture" THEN Postures ELSE {""}) :
     \E faults \in Faults(robot, Raise, 1, 0) :
     \E r \in {GoTo(op, Env0, posture, faults)} :
        /\ calls' = r.env.calls
        /\ failed' = r.env.failed
        /\ Returned(op, Outcome(r, faults))

ApplyWrapUp ==
  /\ program = "functions" /\ fn_result.op = "none"
  /\ fn_arg \in PlayReplies
  /\ \E use_spin \in BOOLEAN :
     \E faults \in Faults(robot, Raise, 0, MaxMoves) :
     \E r \in {perform_wrap_up_action(Env0, robot, use_spin, faults)} :
        /\ calls' = r.env.calls
        /\ failed' = r.env.failed
        /\ Returned("perform_wrap_up_action", Outcome(r, faults))

ApplyShutdown ==
  /\ program = "functions" /\ fn_result.op = "none"
  /\ fn_arg \in PlayReplies
  /\ \E faults \in Faults(robot, Raise, MaxPostures, MaxMoves) :
     \E r \in {perform_elderly_shutdown(Env0, robot, faults)} :
        /\ calls' = r.env.calls
        /\ failed' = r.env.failed
        /\ Returned("perform_elderly_shutdown", Outcome(r, faults))

\* demo_desktop_gpt_life_Stages.py: the parent-role menu with some role file
ApplySelectParentRole ==
  /\ program = "functions" /\ fn_result.op = "none"
  /\ fn_arg \in MenuSelections
  /\ \E available_roles \in RoleLists :
       Returned("select_parent_role",
                [roles |-> available_roles, chosen |-> select_parent_role(available_roles, fn_arg)])
  /\ UNCHANGED <<calls, failed>>

FnNext ==
  \/ ApplyExtract
  \/ ApplyExtractAgain
  \/ ApplyNormalize
  \/ ApplyFind
  \/ ApplyResolve
  \/ ApplyStandaloneResolve
  \/ ApplyPlay
  \/ ApplyPickRole
  \/ ApplySpeak
  \/ ApplyPosture
  \/ ApplyWrapUp
  \/ ApplyShutdown
  \/ ApplySelectParentRole

FnSpec == FnInit /\ [][FnNext]_vars
(***************************************************************************)
(* stt_whisper_direct.py: VADWhisperSTT.  listen_and_transcribe opens the  *)
(* input stream and polls; the stream's thread calls _process_audio_stream *)
(* for every block.  The two threads interleave between statements.        *)
(***************************************************************************)
SAMPLE_RATE == 16000

BLOCK_SIZE == 2048

\* int((VAD_POST_BUFFER_S * SAMPLE_RATE) / BLOCK_SIZE) with VAD_POST_BUFFER_S = 0.7
post_silence_blocks == (7 * SAMPLE_RATE) \div (10 * BLOCK_SIZE)

\* int((VAD_PRE_BUFFER_S * SAMPLE_RATE) / BLOCK_SIZE) with VAD_PRE_BUFFER_S = 1
pre_buffer_blocks == (1 * SAMPLE_RATE) \div BLOCK_SIZE

\* the microphone delivers at most this many blocks while one call listens
MaxBlocks == 14

SttInit ==
  /\ program = "stt"
  /\ pc = "Idle"
  /\ behaviour = CHOOSE b \in BehaviourFiles : TRUE
  /\ stage_idx = 1
  /\ RunStart
  /\ robot = FALSE
  /\ emo_list = "repository"
  /\ fn_arg = <<>>
  /\ fn_result = NotCalled
  /\ SttIdle

\* what the front end leaves alone
SttFrame == UNCHANGED <<program, pc, robot, emo_list, fn_arg, fn_result, nm_vars, m_vars, calls, failed, doneBy>>

\* the block being processed: the last one delivered
indata == Len(arrived)

\* _is_speech(indata)
is_speech_now == arrived[indata]

\* collections.deque(maxlen).append
DequeAppend(d, x, maxlen) ==
  IF Len(d) < maxlen THEN Append(d, x) ELSE Append(Tail(d), x)

\* listen_and_transcribe, up to the open stream
Listen ==
  /\ program = "stt"
  /\ poll_pc = "idle"
  /\ recorded_audio' = <<>>
  /\ pre_buffer' = <<>>
  /\ is_recording' = FALSE
  /\ silence_counter' = 0
  /\ \/ stream' = "open" /\ poll_pc' = "is_recording"
     \/ stream' = "closed" /\ poll_pc' = "error"
  /\ UNCHANGED <<arrived, cb_pc>>
  /\ SttFrame

\* the while condition, left operand: self.is_recording
PollRecording ==
  /\ poll_pc = "is_recording"
  /\ poll_pc' = IF is_recording THEN "sleep" ELSE "len"
  /\ UNCHANGED <<is_recording, recorded_audio, pre_buffer, silence_counter, arrived, stream, cb_pc>>
  /\ SttFrame

\* the while condition, right operand: len(self.recorded_audio) == 0
PollLength ==
  /\ poll_pc = "len"
  /\ poll_pc' = IF Len(recorded_audio) = 0 THEN "sleep" ELSE "exited"
  /\ UNCHANGED <<is_recording, recorded_audio, pre_buffer, silence_counter, arrived, stream, cb_pc>>
  /\ SttFrame

\* time.sleep(0.1)
PollSleep ==
  /\ poll_pc = "sleep"
  /\ poll_pc' = "is_recording"
  /\ UNCHANGED <<is_recording, recorded_audio, pre_buffer, silence_counter, arrived, stream, cb_pc>>
  /\ SttFrame

\* leaving the with block stops and closes the stream, once the callback
\* in progress has returned
StreamClose ==
  /\ poll_pc = "exited"
  /\ cb_pc = "idle"
  /\ stream' = "closed"
  /\ poll_pc' = "returned"
  /\ UNCHANGED <<is_recording, recorded_audio, pre_buffer, silence_counter, arrived, cb_pc>>
  /\ SttFrame

\* _process_audio_stream is called with the next block and tests
\* self.is_recording
CallbackEnters ==
  /\ stream = "open"
  /\ cb_pc = "idle"
  /\ Len(arrived) < MaxBlocks
  /\ \E speech \in BOOLEAN :
       /\ arrived' = Append(arrived, speech)
       /\ cb_pc' = IF is_recording THEN "append"
                   ELSE IF speech THEN "start" ELSE "pre_buffer"
  /\ UNCHANGED <<is_recording, recorded_audio, pre_buffer, silence_counter, stream, poll_pc>>
  /\ SttFrame

\* recording: self.recorded_audio.append(indata.copy())
CallbackAppends ==
  /\ cb_pc = "append"
  /\ recorded_audio' = Append(recorded_audio, indata)
  /\ cb_pc' = "count"
  /\ UNCHANGED <<is_recording, pre_buffer, silence_counter, arrived, stream, poll_pc>>
  /\ SttFrame

\* fault variant of CallbackCounts: speech does not reset the counter
CallbackCounts_NoReset ==
  /\ cb_pc = "count"
  /\ cb_pc' = "idle"
  /\ IF ~is_speech_now
       THEN /\ silence_counter' = silence_counter + 1
            /\ IF silence_counter + 1 >= post_silence_blocks
                 THEN is_recording' = FALSE /\ stream' = "stopped"
                 ELSE UNCHANGED <<is_recording, stream>>
       ELSE UNCHANGED <<silence_counter, is_recording, stream>>
  /\ UNCHANGED <<recorded_audio, pre_buffer, arrived, poll_pc>>
  /\ SttFrame

\* recording: the silence counter, and CallbackStop at the end of speech
CallbackCounts ==
  /\ cb_pc = "count"
  /\ cb_pc' = "idle"
  /\ IF ~is_speech_now
       THEN /\ silence_counter' = silence_counter + 1
            /\ IF silence_counter + 1 >= post_silence_blocks
                 THEN is_recording' = FALSE /\ stream' = "stopped"
                 ELSE UNCHANGED <<is_recording, stream>>
       ELSE /\ silence_counter' = 0
            /\ UNCHANGED <<is_recording, stream>>
  /\ UNCHANGED <<recorded_audio, pre_buffer, arrived, poll_pc>>
  /\ SttFrame

\* waiting, speech: self.is_recording = True; self.silence_counter = 0
CallbackStarts ==
  /\ cb_pc = "start"
  /\ is_recording' = TRUE
  /\ silence_counter' = 0
  /\ cb_pc' = "extend"
  /\ UNCHANGED <<recorded_audio, pre_buffer, arrived, stream, poll_pc>>
  /\ SttFrame

\* waiting, speech: self.recorded_audio.extend(self.pre_buffer)
CallbackExtends ==
  /\ cb_pc = "extend"
  /\ recorded_audio' = recorded_audio \o pre_buffer
  /\ cb_pc' = "first"
  /\ UNCHANGED <<is_recording, pre_buffer, silence_counter, arrived, stream, poll_pc>>
  /\ SttFrame

\* waiting, speech: self.recorded_audio.append(indata.copy())
CallbackFirst ==
  /\ cb_pc = "first"
  /\ recorded_audio' = Append(recorded_audio, indata)
  /\ cb_pc' = "idle"
  /\ UNCHANGED <<is_recording, pre_buffer, silence_counter, arrived, stream, poll_pc>>
  /\ SttFrame

\* waiting, no speech: self.pre_buffer.append(indata.copy())
CallbackBuffers ==
  /\ cb_pc = "pre_buffer"
  /\ pre_buffer' = DequeAppend(pre_buffer, indata, pre_buffer_blocks)
  /\ cb_pc' = "idle"
  /\ UNCHANGED <<is_recording, recorded_audio, silence_counter, arrived, stream, poll_pc>>
  /\ SttFrame

SttNext ==
  \/ Listen
  \/ PollRecording
  \/ PollLength
  \/ PollSleep
  \/ StreamClose
  \/ CallbackEnters
  \/ CallbackAppends
  \/ CallbackCounts
  \/ CallbackStarts
  \/ CallbackExtends
  \/ CallbackFirst
  \/ CallbackBuffers

SttSpec == SttInit /\ [][SttNext]_vars


(***************************************************************************)
(* Properties                                                              *)
(***************************************************************************)
IsPrefix(s, t) == Len(s) <= Len(t) /\ SubSeq(t, 1, Len(s)) = s

Last(s) == s[Len(s)]

\* positions of the calls of the last handler with a given operation
CallsOf(ops) == {i \in DOMAIN calls : calls[i].op \in ops}

\* the chat completion of the last handler was the opening line (200 tokens),
\* a normal reply (1000) or the closing remark (60)
LlmCallWith(max_tokens) ==
  calls # <<>> /\ calls[1].op = "llm" /\ calls[1].arg.max_tokens = max_tokens

SpeechOps == {"speak_text", "tts.request"}

AnimationOps == {"play_for_emotions", "play_animation"}

PostureOps == {"go_to_crouch", "go_to_posture", "posture"}

WrapUpMotionOps == {"perform_wrap_up_action", "perform_elderly_shutdown", "moveTo"}

QuitWords == { <<"q","u","i","t">>, <<"e","x","i","t">> }

\* C1: in new_main.py an utterance that equals 'quit' or 'exit' in any letter
\* case ends the run at once: the handler that hears it makes no LLM, speech
\* or motion call and appends nothing to the life memory, and nothing at all
\* happens after the run has ended.
C1_QuitEndsRun ==
  [][ /\ (program = "new_main" /\ pc = "AwaitingUserInput" /\ lower(user_dialogue') \in QuitWords)
           => (pc' = "Done" /\ doneBy' = "quit" /\ calls' = <<>>
               /\ life_memory_log' = life_memory_log /\ messages' = messages)
      /\ pc # "Done" ]_vars

C1_Witness ==
  /\ program = "new_main"
  /\ pc = "Done"
  /\ doneBy = "quit"
  /\ user_dialogue = <<"Q","u","i","t">>
  /\ stages[stage_idx] = "adult"
  /\ event_idx = 2
  /\ Len(life_memory_log) >= 2

C3_ClosingSpeechBlocks ==
  (program = "new_main" /\ LlmCallWith(60)) =>
    /\ \A i \in CallsOf(SpeechOps) : calls[i].block
    /\ \A i \in CallsOf(AnimationOps \cup PostureOps \cup WrapUpMotionOps) :
         /\ \E j \in 1..(i - 1) : calls[j].op = "speak_text"
         /\ \A j \in CallsOf(SpeechOps) : j < i
         /\ calls[i].during = <<>>

C3_Witness ==
  /\ program = "new_main"
  /\ LlmCallWith(60)
  /\ \E i \in CallsOf({"tts.request"}) : \E j \in CallsOf({"moveTo"}) : i < j
  /\ CallsOf({"play_animation"}) # {}
  /\ CallsOf({"posture"}) # {}

\* C4: in every turn that speaks an LLM reply (opening line, normal reply and
\* closing remark of new_main.py, every reply of main.py) speak_text is called
\* with the cleaned text of the reply before any animation of the turn is
\* requested.
C4_SpeechBeforeAnimation ==
  /\ \A i \in CallsOf(AnimationOps) :
       \E j \in 1..(i - 1) :
         /\ calls[j].op = "speak_text"
         /\ \A k \in 1..(j - 1) : calls[k].op = "llm"
  /\ (program = "new_main" /\ pc = "AwaitingControl" /\ LlmCallWith(1000)) =>
       \E j \in CallsOf({"speak_text"}) :
         calls[j].arg = Extract(robot_reply_raw).clean_text
  /\ (program = "main" /\ pc = "m_You") =>
       \E j \in CallsOf({"speak_text"}) : calls[j].arg = Last(stage_history).content

C4_Witness ==
  /\ program = "main"
  /\ pc = "m_You"
  /\ \E j \in CallsOf({"speak_text"}) : \E i \in CallsOf({"play_animation"}) :
       j < i /\ calls[j].arg = <<"H","i">>

\* C5 (as stated): after an event was wrapped up, the history passed to the
\* opening-line LLM call of the next event has length 1.
C5_OpeningHistoryLengthOne ==
  (program = "new_main" /\ LlmCallWith(200) /\ life_memory_log # <<>>) =>
    Len(calls[1].arg.messages) = 1

\* C5 (amended): the history passed to the opening-line LLM call of an event
\* is exactly two system messages, the newly built system prompt of this
\* stage and event and the opening-line instruction; no message of an earlier
\* event is in it and the call is the first call of the event.
C5_OpeningHistoryFresh ==
  (program = "new_main" /\ LlmCallWith(200)) =>
    LET m == calls[1].arg.messages
    IN  /\ Len(m) = 2
        /\ m[1].role = "system"
        /\ m[1].content.style = stage_name
        /\ m[1].content.event = current_event.key
        /\ m[2].role = "system"
        /\ m[2].content = OpeningInstruction(stage_name, current_event.key)
        /\ SubSeq(messages, 1, 2) = m
        /\ CallsOf({"llm"}) = {1}

C5_Witness ==
  /\ program = "new_main"
  /\ LlmCallWith(200)
  /\ pc = "AwaitingUserInput"
  /\ event_idx = 2
  /\ Len(life_memory_log) = 1
  /\ Len(messages) = 3

\* a normal turn of new_main.py ran to its end in this step
NormalTurnDone == program = "new_main" /\ pc = "AwaitingUserInput" /\ pc' = "AwaitingControl"

\* C6: in new_main.py the history only grows within an event; a successful
\* normal turn appends exactly the user utterance and then the assistant turn
\* holding the raw reply, tags included; and every LLM call is given exactly
\* the history as it is at the call.
C6_HistoryAppendOnly ==
  [][ program = "new_main" =>
        /\ pc \in {"AwaitingUserInput", "AwaitingControl"} => IsPrefix(messages, messages')
        /\ NormalTurnDone =>
             /\ messages' = messages \o << Msg("user", user_dialogue'),
                                           Msg("assistant", robot_reply_raw') >>
             /\ \E i \in DOMAIN calls' :
                  /\ calls'[i].op = "play_for_emotions"
                  /\ calls'[i].arg = Extract(Last(messages').content).tags
        /\ \A i \in DOMAIN calls' :
             calls'[i].op = "llm" =>
               calls'[i].arg.messages =
                 IF pc = "EventEntry" THEN SubSeq(messages', 1, 2)
                 ELSE IF pc = "AwaitingUserInput"
                      THEN Append(messages, Msg("user", user_dialogue'))
                      ELSE messages' ]_vars

C6_Witness ==
  /\ program = "new_main"
  /\ pc = "AwaitingControl"
  /\ turns = 2
  /\ Len(messages) = 7
  /\ messages[6] = Msg("user", <<"h","i">>)
  /\ messages[7].role = "assistant"
  /\ messages[7].content = robot_reply_raw
  /\ Extract(robot_reply_raw).tags # {}
  /\ LlmCallWith(1000)

\* C7 (as stated): every selection of wrap-up ('1') appends exactly one record
\* naming the stage and the event to life_memory_log, whatever the outcome of
\* the closing LLM call, the closing speech or the motions.
C7_WrapUpAlwaysRecords ==
  [][ (program = "new_main" /\ pc = "AwaitingControl" /\ control_input' = <<"1">>) =>
        life_memory_log' = Append(life_memory_log,
                                  MemoryRecord(stage_name, current_event.key)) ]_vars

\* a wrap-up whose closing completion raised: the first event of the run was
\* left through '1', only the LLM call was made, and the log is still empty
C7_Witness ==
  /\ program = "new_main"
  /\ pc = "EventEntry"
  /\ control_input = <<"1">>
  /\ LlmCallWith(60)
  /\ Len(calls) = 1
  /\ failed
  /\ event_idx = 2
  /\ life_memory_log = <<>>

\* C8: life_memory_log is append-only for the whole run: a step either leaves
\* it alone or is a wrap-up that appends one record to it; and the memory
\* shown in the system prompt of the current event is the entire log as it
\* was when the event began (which is the log until the event is wrapped up).
C8_LifeMemoryAppendOnly ==
  /\ [][ /\ IsPrefix(life_memory_log, life_memory_log')
         /\ life_memory_log' # life_memory_log =>
              /\ pc = "AwaitingControl"
              /\ control_input' = <<"1">>
              /\ life_memory_log' = Append(life_memory_log,
                                           MemoryRecord(stage_name, current_event.key)) ]_vars
  /\ [](program = "new_main" /\ pc \in {"AwaitingUserInput", "AwaitingControl"} =>
          /\ messages[1].role = "system"
          /\ messages[1].content.memory =
               IF current_event.marker THEN <<life_memory_log>> ELSE <<>>)

C8_Witness ==
  /\ program = "new_main"
  /\ pc = "AwaitingControl"
  /\ Len(life_memory_log) = 2
  /\ life_memory_log[1] = MemoryRecord("teen", "peer_conflict")
  /\ life_memory_log[2] = MemoryRecord("adult", "life_story_monologue")
  /\ messages[1].content.memory = <<life_memory_log>>

\* the controller call that selects the wrap-up motion in the last handler
WrapUpMotionCalls == CallsOf({"perform_wrap_up_action", "perform_elderly_shutdown"})

\* the move requests sent by the last handler
MovesSent == [i \in 1..Cardinality(CallsOf({"moveTo"})) |->
                calls[CHOOSE k \in CallsOf({"moveTo"}) :
                        Cardinality({j \in CallsOf({"moveTo"}) : j <= k}) = i].arg]

SpinMoves == << <<0, 180>>, <<0, 180>> >>

ChangePositionMoves == << <<0, -90>>, <<1, 0>>, <<0, 90>> >>

\* C9 (as stated): the wrap-up motion is the spin if and only if the event is
\* the last event of its stage, and change_position otherwise, in every stage.
C9_SpinIffLastEvent ==
  (program = "new_main" /\ LlmCallWith(60)) =>
    \A i \in WrapUpMotionCalls :
      calls[i].op = "perform_wrap_up_action" /\ calls[i].arg = is_last_event

\* C9 (amended): in the stages child, teen and adult the wrap-up motion is the
\* spin if and only if the event is the last event of the stage and
\* change_position otherwise; in the baby stage it is always the spin; in the
\* elderly stage it is change_position for an event that is not the last and
\* the elderly shutdown (StandInit, change_position, LyingBelly) instead of
\* the spin for the last event.  With a robot and no failed request the moves
\* sent are those of the selected form.
C9_WrapUpMotionForm ==
  (program = "new_main" /\ LlmCallWith(60) /\ WrapUpMotionCalls # {}) =>
    LET stage == Last(life_memory_log).stage
        i == CHOOSE k \in WrapUpMotionCalls : TRUE
        spin == calls[i].op = "perform_wrap_up_action" /\ calls[i].arg = TRUE
        reposition == calls[i].op = "perform_wrap_up_action" /\ calls[i].arg = FALSE
        shutdown == calls[i].op = "perform_elderly_shutdown"
    IN  /\ Cardinality(WrapUpMotionCalls) = 1
        /\ stage = "baby" => spin
        /\ stage \in {"child", "teen", "adult"} => (spin <=> is_last_event) /\ ~shutdown
        /\ stage = "elderly" => (shutdown <=> is_last_event) /\ ~spin
        /\ spin \/ reposition \/ shutdown
        /\ (robot /\ ~failed) => MovesSent = IF spin THEN SpinMoves ELSE ChangePositionMoves
        /\ ~robot => MovesSent = <<>>

C9_Witness ==
  /\ program = "new_main"
  /\ LlmCallWith(60)
  /\ robot
  /\ ~failed
  /\ is_last_event
  /\ Last(life_memory_log).stage = "adult"
  /\ \E i \in WrapUpMotionCalls : calls[i].op = "perform_wrap_up_action" /\ calls[i].arg = TRUE
  /\ MovesSent = SpinMoves

\* C10: at the control prompt of new_main.py the answer '0' returns to the
\* input prompt of the same event with the history unchanged and no call
\* made, the answer '1' runs the wrap-up and leaves the event, and any other
\* answer changes nothing, makes no call and prompts again.
C10_ControlPrompt ==
  [][ (program = "new_main" /\ pc = "AwaitingControl") =>
        /\ control_input' = <<"0">> =>
             /\ pc' = "AwaitingUserInput"
             /\ calls' = <<>>
             /\ UNCHANGED <<stage_idx, event_idx, messages, life_memory_log, turns>>
        /\ control_input' = <<"1">> =>
             /\ pc' \in {"EventEntry", "StageEntry", "Done"}
             /\ <<stage_idx', event_idx'>> # <<stage_idx, event_idx>> \/ pc' = "Done"
             /\ calls' # <<>>
             /\ calls'[1].op = "llm"
             /\ calls'[1].arg.max_tokens = 60
             /\ Last(calls'[1].arg.messages) = Msg("system", wrap_msg)
        /\ control_input' \notin {<<"0">>, <<"1">>} =>
             /\ pc' = "AwaitingControl"
             /\ calls' = <<>>
             /\ UNCHANGED <<stage_idx, event_idx, messages, life_memory_log, turns,
                            is_last_event, force_stage_end, doneBy>> ]_vars

C10_Witness ==
  /\ program = "new_main"
  /\ pc = "AwaitingControl"
  /\ control_input = <<"2">>
  /\ calls = <<>>
  /\ turns = 1

(***************************************************************************)
(* Claims C11 to C20                                                       *)
(***************************************************************************)
\* C11: in new_main.py an utterance that is empty (nothing was heard, or
\* only white space) changes nothing: the history, the stage and event, the
\* life memory and the turn count stay as they were, no LLM, speech or motion
\* call is made, and the orchestrator listens again in the same event.
C11_EmptyUtteranceChangesNothing ==
  [][(program = "new_main" /\ pc = "AwaitingUserInput" /\ strip(user_dialogue') = <<>>)
       => /\ pc' = "AwaitingUserInput"
          /\ calls' = <<>>
          /\ UNCHANGED <<messages, stage_idx, event_idx, life_memory_log, turns,
                         robot_reply_raw, doneBy>>]_vars

\* after one turn and a continue, a failed recording was taken as an empty
\* utterance and the orchestrator listens again
C11_Witness ==
  /\ program = "new_main"
  /\ pc = "AwaitingUserInput"
  /\ turns = 1
  /\ failed
  /\ user_dialogue = <<>>
  /\ calls = <<>>

\* C12: when the behaviour data of a stage cannot be loaded, new_main.py skips
\* the stage: no posture, LLM or speech call is made, no event of the stage
\* is entered, history and life memory stay as they were, and the run goes
\* on with the next stage (or is complete when the stage was the last one).
C12_UnloadableStageSkipped ==
  [][(program = "new_main" /\ pc = "StageEntry" /\ ~behaviour[stage_name].loaded)
       => /\ calls' = <<>>
          /\ UNCHANGED <<messages, life_memory_log, event_idx>>
          /\ IF stage_idx < Len(stages)
             THEN pc' = "StageEntry" /\ stage_idx' = stage_idx + 1 /\ doneBy' = doneBy
             ELSE pc' = "Done" /\ doneBy' = "exhausted"]_vars

\* an event of an earlier stage was wrapped up, the following stage had no
\* loadable data and was skipped, and the run stands at the stage after it
C12_Witness ==
  /\ program = "new_main"
  /\ pc = "StageEntry"
  /\ stage_idx > 1
  /\ ~behaviour[stages[stage_idx - 1]].loaded
  /\ life_memory_log # <<>>
  /\ calls = <<>>

\* one step of new_main.py keeps the order of the two for loops: the stage
\* index moves forward by one when a stage is entered and not otherwise, an
\* event is entered as the first event of the stage just entered or as the
\* successor of the current event, and a step inside an event keeps both
StageEventOrder ==
  /\ (pc' = "StageEntry") => (stage_idx' = stage_idx + 1)
  /\ (pc' = "EventEntry") =>
        /\ stage_idx' = stage_idx
        /\ event_idx' = (IF pc = "StageEntry" THEN 1 ELSE event_idx + 1)
        /\ event_idx' \in 1..Len(behaviour[stages[stage_idx']].events)
  /\ (pc' \notin {"StageEntry", "EventEntry"}) => UNCHANGED <<stage_idx, event_idx>>

C14_LlmFailureGoesToControl ==
  [][(program = "new_main" /\ pc = "AwaitingUserInput"
        /\ failed' /\ Len(calls') = 1 /\ calls'[1].op = "llm")
       => /\ messages' = Append(messages, Msg("user", user_dialogue'))
          /\ pc' = "AwaitingControl"
          /\ UNCHANGED <<stage_idx, event_idx, life_memory_log>>]_vars

\* the LLM call of a normal turn of the first event failed, and the
\* orchestrator stands at the entry of the second event with no record of
\* the first
C14_Witness ==
  /\ program = "new_main"
  /\ pc = "EventEntry"
  /\ event_idx = 2
  /\ failed
  /\ Len(calls) = 1
  /\ LlmCallWith(1000)
  /\ Last(messages).role = "user"
  /\ life_memory_log = <<>>

\* the tags of the reply whose tags were played, without 'neutral'
OtherTags == Extract(fn_arg).tags \ {neutral}

\* the animation play_for_emotions requests for a tag of the list in use
AnimationFor(tag) ==
  OrElse(_resolve_animation_name(Catalogs[emo_list], _find_animation_for_tag(Catalogs[emo_list], tag)),
         _find_animation_for_tag(Catalogs[emo_list], tag))

MappedTags == {t \in OtherTags : Truthy(_find_animation_for_tag(Catalogs[emo_list], t))}

\* C15: whatever the list of animations holds, play_for_emotions requests no
\* animation for the tag 'neutral' and does not report it as unmapped, and
\* it handles every other tag of the set: with a robot, exactly one
\* animation request for each other tag that has an animation, and one
\* report for each other tag that has none.
C15_NeutralIsNoOp ==
  (program = "functions" /\ fn_result.op = "play_for_emotions") =>
    /\ {calls[i].arg : i \in CallsOf({"report_unmapped"})} = OtherTags \ MappedTags
    /\ Cardinality(CallsOf({"report_unmapped"})) = Cardinality(OtherTags \ MappedTags)
    /\ {calls[i].arg : i \in CallsOf({"play_animation"})} =
         (IF robot THEN {AnimationFor(t) : t \in MappedTags} ELSE {})
    /\ Cardinality(CallsOf({"play_animation"})) = (IF robot THEN Cardinality(MappedTags) ELSE 0)

\* the list has an entry named Neutral, the set holds 'neutral' and another
\* tag, 'neutral' came first in the iteration, and the one animation
\* requested is the one of the other tag
C15_Witness ==
  /\ program = "functions"
  /\ fn_result.op = "play_for_emotions"
  /\ emo_list = "with_neutral"
  /\ Truthy(_find_animation_for_tag(Catalogs[emo_list], neutral))
  /\ robot
  /\ Len(fn_result.value.order) = 2
  /\ fn_result.value.order[1] = neutral
  /\ Cardinality(CallsOf({"play_animation"})) = 1

\* a text that matches [a-z_]+
IsLowerTag(t) == t # <<>> /\ \A i \in 1..Len(t) : IsLower(t[i]) \/ t[i] = "_"

\* the argument without its first gesture_ prefix
AfterGesturePrefix == SubSeq(fn_arg, Len(GesturePrefix) + 1, Len(fn_arg))

\* C16 (as stated): for every t that matches [a-z_]+, _normalize_tag gives
\* 'gesture_' + t and t the same key, and _find_animation_for_tag gives them
\* the same result.
C16_GesturePrefixInvariant ==
  (program = "functions" /\ startswith(fn_arg, GesturePrefix) /\ IsLowerTag(AfterGesturePrefix)) =>
    /\ fn_result.op = "_normalize_tag" => fn_result.value = _normalize_tag(AfterGesturePrefix)
    /\ fn_result.op = "_find_animation_for_tag" =>
          fn_result.value = _find_animation_for_tag(Catalogs[emo_list], AfterGesturePrefix)

\* the tag gesture_gesture_hey was looked up in the repository's list and
\* nothing was found, while gesture_hey has an animation
C16_Witness ==
  /\ program = "functions"
  /\ emo_list = "repository"
  /\ fn_arg = GesturePrefix \o GesturePrefix \o <<"h","e","y">>
  /\ fn_result.op = "_find_animation_for_tag"
  /\ fn_result.value = None
  /\ Truthy(_find_animation_for_tag(Catalogs[emo_list], AfterGesturePrefix))
  /\ _normalize_tag(fn_arg) = <<"g","e","s","t","u","r","e","h","e","y">>
  /\ _normalize_tag(AfterGesturePrefix) = <<"h","e","y">>

\* the last path segment of a list entry in lower case, letters only
CompactName(a) == SelectSeq(lower(LastSegment(a)), IsLower)

\* positions of the entries of the list in use whose compact name contains
\* the normalised argument
KeyHits ==
  {i \in 1..Len(Catalogs[emo_list]) :
     contains(CompactName(Catalogs[emo_list][i]), _normalize_tag(fn_arg))}

\* C17 (as stated): _find_animation_for_tag returns the first entry of the
\* list, in list order, whose compact name contains the normalised tag, and
\* None exactly when no entry does.
C17_FirstMatchOrNone ==
  (program = "functions" /\ fn_result.op = "_find_animation_for_tag") =>
    fn_result.value = (IF KeyHits = {} THEN None ELSE Catalogs[emo_list][SetMin(KeyHits)])

\* C17: for a tag whose normalised form is not empty, _find_animation_for_tag
\* returns the first entry of the list, in list order, whose compact name
\* contains the normalised tag, and None exactly when no entry does; for a
\* tag whose normalised form is empty it returns None.  With the list
\* ns/Gestures/Hey_1, ns/Emotions/Angry_1: 'angry' gives ns/Emotions/Angry_1,
\* 'gesture_hey' gives ns/Gestures/Hey_1 and 'purple_unicorn' gives None.
C17_FirstMatchWins ==
  (program = "functions" /\ fn_result.op = "_find_animation_for_tag") =>
    /\ fn_result.value =
         (IF _normalize_tag(fn_arg) = <<>> \/ KeyHits = {} THEN None
          ELSE Catalogs[emo_list][SetMin(KeyHits)])
    /\ (emo_list = "two" /\ fn_arg = <<"a","n","g","r","y">>) => fn_result.value = <<"n","s","/","E","m","o","t","i","o","n","s","/","A","n","g","r","y","_","1">>
    /\ (emo_list = "two" /\ fn_arg = <<"g","e","s","t","u","r","e","_","h","e","y">>) => fn_result.value = <<"n","s","/","G","e","s","t","u","r","e","s","/","H","e","y","_","1">>
    /\ (emo_list = "two" /\ fn_arg = <<"p","u","r","p","l","e","_","u","n","i","c","o","r","n">>) => fn_result.value = None

\* 'angry' was looked up in the repository's list, where several entries
\* match, and the first of them was returned
C17_Witness ==
  /\ program = "functions"
  /\ emo_list = "repository"
  /\ fn_arg = <<"a","n","g","r","y">>
  /\ fn_result.op = "_find_animation_for_tag"
  /\ Cardinality(KeyHits) > 1
  /\ fn_result.value = <<"a","n","i","m","a","t","i","o","n","s","/","S","t","a","n","d","/","E","m","o","t","i","o","n","s","/","N","e","g","a","t","i","v","e","/","A","n","g","r","y","_","1">>

\* one of the two _resolve_animation_name has returned
Resolved == fn_result.op \in {"_resolve_animation_name", "standalone_resolve_animation_name"}

\* the entries of the list in use that end with '/' + name, letter case
\* ignored, in list order
SuffixMatches(name) ==
  SelectSeq(Catalogs[emo_list], LAMBDA a : endswith(lower(a), <<"/">> \o lower(name)))

\* of several entries the first under the gesture namespace, else the first
PreferGesture(matches) ==
  IF matches = <<>> THEN None
  ELSE IF \E i \in 1..Len(matches) : contains(lower(matches[i]), GesturesInfix)
       THEN matches[SetMin({i \in 1..Len(matches) : contains(lower(matches[i]), GesturesInfix)})]
       ELSE matches[1]

\* C18 (as stated): for a name that is not a full path, both
\* _resolve_animation_name return None when no entry ends with '/' + name,
\* letter case ignored, the entry when one does, and of several the first
\* under the gesture namespace, else the first in list order.
C18_SuffixModeOfName ==
  (program = "functions" /\ Resolved /\ ~startswith(fn_arg, AnimationsPrefix)) =>
    fn_result.value = PreferGesture(SuffixMatches(fn_arg))

\* C18: as above for the name with the white space around it removed: a
\* name that is not a full path after trimming is matched as a suffix in its
\* trimmed form.
C18_SuffixModeOfTrimmedName ==
  (program = "functions" /\ Resolved /\ ~startswith(strip(fn_arg), AnimationsPrefix)) =>
    fn_result.value = PreferGesture(SuffixMatches(strip(fn_arg)))

\* 'Angry_1' ends two entries of the repository's list, the first under
\* Emotions/Negative, and the entry under Gestures was returned
C18_Witness ==
  /\ program = "functions"
  /\ emo_list = "repository"
  /\ fn_arg = <<"A","n","g","r","y","_","1">>
  /\ fn_result.op = "_resolve_animation_name"
  /\ Len(SuffixMatches(fn_arg)) = 2
  /\ SuffixMatches(fn_arg)[1] = <<"a","n","i","m","a","t","i","o","n","s","/","S","t","a","n","d","/","E","m","o","t","i","o","n","s","/","N","e","g","a","t","i","v","e","/","A","n","g","r","y","_","1">>
  /\ fn_result.value = <<"a","n","i","m","a","t","i","o","n","s","/","S","t","a","n","d","/","G","e","s","t","u","r","e","s","/","A","n","g","r","y","_","1">>

\* positions of the entries of the list in use that equal the name up to
\* letter case
EntriesLike(name) ==
  {i \in 1..Len(Catalogs[emo_list]) : lower(Catalogs[emo_list][i]) = lower(name)}

\* every entry of the list in use is a full path, as in the repository
AllFullPaths ==
  \A i \in 1..Len(Catalogs[emo_list]) : startswith(Catalogs[emo_list][i], AnimationsPrefix)

\* C19 (as stated): both _resolve_animation_name return the entry a for the
\* name a, and for every name that equals the entry a up to letter case.
C19_FullPathAnyCase ==
  (program = "functions" /\ Resolved /\ AllFullPaths /\ EntriesLike(fn_arg) # {}) =>
    fn_result.value = Catalogs[emo_list][SetMin(EntriesLike(fn_arg))]

\* the name of an entry of the repository's list was given with a capital
\* first letter, and nothing was returned
C19_Witness ==
  /\ program = "functions"
  /\ emo_list = "repository"
  /\ fn_arg = <<"A","n","i","m","a","t","i","o","n","s","/","S","t","a","n","d","/","G","e","s","t","u","r","e","s","/","H","e","y","_","1">>
  /\ fn_result.op = "_resolve_animation_name"
  /\ EntriesLike(fn_arg) # {}
  /\ fn_result.value = None

\* the occurrences of '[' letters and underscores ']' in a text: the
\* positions of the two brackets
TagSpans(s) ==
  {sp \in (1..Len(s)) \X (1..Len(s)) :
     /\ s[sp[1]] = "[" /\ s[sp[2]] = "]" /\ sp[2] > sp[1] + 1
     /\ \A k \in (sp[1] + 1)..(sp[2] - 1) : IsTagChar(s[k])}

\* the text without the characters of its tag spans
WithoutSpans(s) ==
  LET kept == SelectSeq([k \in 1..Len(s) |-> k],
                        LAMBDA k : \A sp \in TagSpans(s) : k < sp[1] \/ k > sp[2])
  IN  [n \in 1..Len(kept) |-> s[kept[n]]]

\* the text is one tag [x] followed by a sentence without brackets
OneLeadingTag(s) ==
  /\ Cardinality(TagSpans(s)) = 1
  /\ \A sp \in TagSpans(s) :
        sp[1] = 1 /\ \A k \in (sp[2] + 1)..Len(s) : s[k] \notin {"[", "]"}

\* C20: extract_motion_tags_and_clean_text(text) returns the set of the
\* contents, in lower case, of every occurrence of '[' letters and
\* underscores ']' in text, and text without those spans, trimmed.  A text of
\* one tag [x] followed by a sentence gives ({x in lower case}, the sentence
\* trimmed), and '[sad] I miss you. [gesture_bow]' gives ({sad, gesture_bow},
\* 'I miss you.').
C20_TagsAndCleanText ==
  (program = "functions" /\ fn_result.op = "extract_motion_tags_and_clean_text") =>
    /\ fn_result.value.tags =
         {lower(SubSeq(fn_arg, sp[1] + 1, sp[2] - 1)) : sp \in TagSpans(fn_arg)}
    /\ fn_result.value.clean_text = strip(WithoutSpans(fn_arg))
    /\ OneLeadingTag(fn_arg) =>
         \A sp \in TagSpans(fn_arg) :
           /\ fn_result.value.tags = {lower(SubSeq(fn_arg, 2, sp[2] - 1))}
           /\ fn_result.value.clean_text = strip(SubSeq(fn_arg, sp[2] + 1, Len(fn_arg)))
    /\ fn_arg = <<"[","s","a","d","]"," ","I"," ","m","i","s","s"," ","y","o","u","."," ","[","g","e","s","t","u","r","e","_","b","o","w","]">> =>
         /\ fn_result.value.tags = {<<"s","a","d">>, <<"g","e","s","t","u","r","e","_","b","o","w">>}
         /\ fn_result.value.clean_text = <<"I"," ","m","i","s","s"," ","y","o","u",".">>

\* a reply with the same tag three times, once in upper case, gave one tag
\* and the text between the spans
C20_Witness ==
  /\ program = "functions"
  /\ fn_result.op = "extract_motion_tags_and_clean_text"
  /\ fn_arg = <<"[","a","]","[","A","]"," ","x"," ","[","a","]">>
  /\ Cardinality(TagSpans(fn_arg)) = 3
  /\ fn_result.value.tags = {<<"a">>}
  /\ fn_result.value.clean_text = <<"x">>

(***************************************************************************)
(* Claims C21 to C30                                                       *)
(***************************************************************************)
\* C21: extract_motion_tags_and_clean_text is idempotent on a cleaned text
\* that is free of bracket tags: called again on such a cleaned text it
\* returns the empty tag set and the same cleaned text; a text that is free
\* of tags from the start gives no tag the first time either.
C21_CleanTextIsFixedPoint ==
  (program = "functions" /\ fn_result.op = "extract_motion_tags_and_clean_text again") =>
    /\ TagSpans(fn_result.value.first.clean_text) = {} =>
         /\ fn_result.value.second.tags = {}
         /\ fn_result.value.second.clean_text = fn_result.value.first.clean_text
    /\ TagSpans(fn_arg) = {} =>
         /\ fn_result.value.first.tags = {}
         /\ TagSpans(fn_result.value.first.clean_text) = {}

\* a reply with a tag and blanks around the sentence was cleaned, and the
\* second call returned the cleaned sentence unchanged
C21_Witness ==
  /\ program = "functions"
  /\ fn_result.op = "extract_motion_tags_and_clean_text again"
  /\ fn_arg = <<" ","[","H","a","p","p","y","]"," "," ","H","e","l","l","o"," ","t","h","e","r","e","."," ">>
  /\ fn_result.value.first.tags = {<<"h","a","p","p","y">>}
  /\ fn_result.value.first.clean_text = <<"H","e","l","l","o"," ","t","h","e","r","e",".">>
  /\ fn_result.value.second.tags = {}
  /\ fn_result.value.second.clean_text = fn_result.value.first.clean_text

\* how often the character c occurs in a text
Brackets(s, c) == Cardinality({k \in 1..Len(s) : s[k] = c})

\* C22: malformed brackets are never taken as tags: an opening bracket
\* without a closing one, the empty pair '[]' and a pair around a digit or
\* any character other than letters and underscores add nothing to the tag
\* set and stay in the cleaned text as they are.
C22_MalformedBracketsStay ==
  (program = "functions" /\ fn_result.op = "extract_motion_tags_and_clean_text") =>
    /\ TagSpans(fn_arg) = {} =>
         /\ fn_result.value.tags = {}
         /\ fn_result.value.clean_text = strip(fn_arg)
    /\ \A c \in {"[", "]"} :
         Brackets(fn_result.value.clean_text, c)
           = Brackets(fn_arg, c) - Cardinality(TagSpans(fn_arg))
    /\ \A t \in fn_result.value.tags : \A k \in 1..Len(t) : IsTagChar(t[k])
    /\ fn_arg \in {<<"[","]">>, <<"[","a">>, <<"[","1","]">>, <<"[","a","1","]">>,
                   <<"[","a"," ","B","]">>, <<"]","a","[">>} =>
         fn_result.value = [tags |-> {}, clean_text |-> fn_arg]

\* a reply with a pair around a blank, an empty pair and a pair around a
\* digit came back whole, without a tag
C22_Witness ==
  /\ program = "functions"
  /\ fn_result.op = "extract_motion_tags_and_clean_text"
  /\ fn_arg = <<"[","a"," ","b","]"," ","[","]"," ","[","a","1","]"," ","o","k">>
  /\ fn_result.value.tags = {}
  /\ fn_result.value.clean_text = fn_arg

\* the tags of the iteration that have an animation in the list in use, in
\* the order of the iteration
MappedInOrder ==
  SelectSeq(fn_result.value.order, LAMBDA t : t \in MappedTags)

\* the animation requests of the call, in the order they were sent
Requested ==
  LET idx == SelectSeq([i \in 1..Len(calls) |-> i], LAMBDA i : calls[i].op = "play_animation")
  IN  [n \in 1..Len(idx) |-> calls[idx[n]].arg]

\* C23: in play_for_emotions a failure stays with its tag: with a robot,
\* every tag other than 'neutral' that has an animation gets exactly one
\* playback request, in the order of the iteration, whether or not another
\* tag has no animation or another request raised; a tag without an
\* animation causes no request; and play_for_emotions never raises.
C23_FailuresIsolatedPerTag ==
  (program = "functions" /\ fn_result.op = "play_for_emotions") =>
    /\ ~fn_result.value.raised
    /\ robot => Requested = [n \in 1..Len(MappedInOrder) |-> AnimationFor(MappedInOrder[n])]
    /\ ~robot => Requested = <<>>
    /\ \A t \in OtherTags \ MappedTags :
         \A i \in CallsOf({"play_animation"}) : ~contains(lower(calls[i].arg), lower(t))
    /\ failed <=> (\E f \in fn_result.value.faults : f[1] = "anim")

\* of three tags the first request raised, the tag in the middle had no
\* animation, and the last tag was still requested
C23_Witness ==
  /\ program = "functions"
  /\ fn_result.op = "play_for_emotions"
  /\ robot
  /\ emo_list = "repository"
  /\ fn_result.value.order = << <<"a","n","g","r","y">>,
                                <<"p","u","r","p","l","e","_","u","n","i","c","o","r","n">>,
                                <<"g","e","s","t","u","r","e","_","h","e","y">> >>
  /\ fn_result.value.faults = {<<"anim", 1>>}
  /\ failed
  /\ ~fn_result.value.raised
  /\ Len(Requested) = 2
  /\ Requested[2] = AnimationFor(<<"g","e","s","t","u","r","e","_","h","e","y">>)
  /\ Cardinality(CallsOf({"report_unmapped"})) = 1

\* the operations of EmotionMotionController the claim names
ControllerOps ==
  {"speak_text", "play_for_emotions", "perform_wrap_up_action", "perform_elderly_shutdown"}
    \cup PostureCalls

\* what is sent to the robot: speech, animation, posture and move requests
RobotRequests == {"tts.request", "play_animation", "posture", "moveTo"}

\* C24: without a robot every operation of EmotionMotionController
\* (speak_text, play_for_emotions, go_to_crouch, go_to_posture and its
\* wrappers, perform_wrap_up_action, perform_elderly_shutdown) sends no
\* request to the robot, raises no error and returns normally.
C24_NoRobotNoRequest ==
  (program = "functions" /\ ~robot /\ fn_result.op \in ControllerOps) =>
    /\ CallsOf(RobotRequests) = {}
    /\ ~fn_result.value.raised
    /\ ~failed

\* without a robot the elderly shutdown ran through its three steps, the
\* two postures were asked of the controller and nothing was sent
C24_Witness ==
  /\ program = "functions"
  /\ ~robot
  /\ fn_result.op = "perform_elderly_shutdown"
  /\ ~fn_result.value.raised
  /\ Cardinality(CallsOf({"go_to_posture"})) = 2
  /\ CallsOf(RobotRequests) = {}

\* a role, or the parent role when it is empty
OrParent(role) == IF role # "" THEN role ELSE fn_arg[3]

\* C25: pick_role_for_event is a lookup on the stage and the event: baby
\* gives the parent role; child gives the teacher role for
\* learning_with_teacher, the peer role for peer_interaction and the parent
\* role otherwise; teen gives the peer role for peer_conflict and the parent
\* role otherwise; adult gives the therapist role and elderly the caregiver
\* role, each replaced by the parent role when empty; any other stage gives
\* the parent role.
C25_RoleLookup ==
  (program = "functions" /\ fn_result.op = "pick_role_for_event") =>
    LET stage == fn_arg[1]
        event == fn_arg[2]
        role == fn_result.value
    IN  /\ stage = "baby" => role = fn_arg[3]
        /\ (stage = "child" /\ event = "learning_with_teacher") => role = fn_arg[4]
        /\ (stage = "child" /\ event = "peer_interaction") => role = fn_arg[5]
        /\ (stage = "child" /\ event \notin {"learning_with_teacher", "peer_interaction"})
             => role = fn_arg[3]
        /\ (stage = "teen" /\ event = "peer_conflict") => role = fn_arg[5]
        /\ (stage = "teen" /\ event # "peer_conflict") => role = fn_arg[3]
        /\ stage = "adult" => role = OrParent(fn_arg[6])
        /\ stage = "elderly" => role = OrParent(fn_arg[7])
        /\ stage \notin {"baby", "child", "teen", "adult", "elderly"} => role = fn_arg[3]

\* in the adult stage no therapist role was chosen and the parent role came
\* back
C25_Witness ==
  /\ program = "functions"
  /\ fn_result.op = "pick_role_for_event"
  /\ fn_arg[1] = "adult"
  /\ fn_arg[3] = parent_role
  /\ fn_arg[6] = ""
  /\ fn_result.value = parent_role

\* main.py has just summarized a stage: the reply of the summary call
Summarized ==
  /\ program = "main"
  /\ pc \in {"m_Gate", "Done"}
  /\ calls # <<>>
  /\ calls[1].op = "llm"

SummaryCallReply == calls[1].arg.reply

\* the reply gives no usable style: the call failed, there were no choices,
\* no JSON object, JSON that cannot be parsed, no next_attachment_style, or
\* a value outside the closed set
NoUsableStyle(out) ==
  \/ out.json \in {"raise", "nochoices", "none", "invalid"}
  \/ out.style = <<>>
  \/ out.style[1] \notin ATTACHMENT_STYLES

\* C26: summarize_and_determine_next_style always returns one of secure,
\* anxious, avoidant, disorganized and never raises; it returns 'secure'
\* whenever the LLM call fails, the reply has no choices, holds no JSON
\* object, cannot be parsed, has no next_attachment_style or has one outside
\* the set; and the run goes on to the next stage.
C26_SummaryNeverFails ==
  /\ program = "main" =>
       /\ nao_attachment_style \in ATTACHMENT_STYLES \cup {NoStyle}
       /\ pc # "Crashed"
  /\ Summarized =>
       /\ nao_attachment_style \in ATTACHMENT_STYLES
       /\ NoUsableStyle(SummaryCallReply) => nao_attachment_style = "secure"
       /\ ~NoUsableStyle(SummaryCallReply) => nao_attachment_style = SummaryCallReply.style[1]
       /\ stage_history = <<>>
       /\ pc = (IF m_stage < Len(LIFE_STAGES) THEN "m_Gate" ELSE "Done")

\* the summary call of the second stage raised, the style is 'secure' and
\* the run waits at the gate to the third stage
C26_Witness ==
  /\ Summarized
  /\ m_stage = 2
  /\ SummaryCallReply.json = "raise"
  /\ failed
  /\ nao_attachment_style = "secure"
  /\ pc = "m_Gate"

\* the texts main.py stores when it has no summary from the reply
Placeholders == {NoSummaryProvided, NoSummaryGenerated, SummarizationError}

\* C27 (as stated): on any parsing failure of the classification reply, a
\* missing field, an invalid value or a reply that is not JSON, the next
\* trait is the default and the stored background summary is a placeholder,
\* not text of the reply.
C27_BothFallbacksTogether ==
  (Summarized /\ SummaryCallReply.json \in {"none", "invalid", "object"}
              /\ (NoUsableStyle(SummaryCallReply) \/ SummaryCallReply.summary = <<>>)) =>
    /\ nao_attachment_style = "secure"
    /\ background_summary \in Placeholders

\* C27 (amended): a reply without a JSON object or with JSON that cannot be
\* parsed gives the default trait and the placeholder of an error; in a
\* parsed object each field falls back alone: a missing summary gives the
\* placeholder 'No summary was provided.' and leaves the trait of the reply,
\* a missing or invalid trait gives the default trait and leaves the summary
\* of the reply.
C27_FallbackPerField ==
  Summarized =>
    /\ SummaryCallReply.json \in {"none", "invalid", "raise"} =>
         /\ nao_attachment_style = "secure"
         /\ background_summary = SummarizationError
    /\ SummaryCallReply.json = "nochoices" =>
         /\ nao_attachment_style = "secure"
         /\ background_summary = NoSummaryGenerated
    /\ SummaryCallReply.json = "object" =>
         /\ background_summary = (IF SummaryCallReply.summary = <<>> THEN NoSummaryProvided
                                  ELSE SummaryCallReply.summary[1])
         /\ nao_attachment_style = (IF NoUsableStyle(SummaryCallReply) THEN "secure"
                                    ELSE SummaryCallReply.style[1])

\* the reply named a style outside the set and a summary: the trait is the
\* default and the summary of the reply is stored
C27_Witness ==
  /\ Summarized
  /\ SummaryCallReply.json = "object"
  /\ SummaryCallReply.style = <<"chaotic">>
  /\ nao_attachment_style = "secure"
  /\ background_summary = Ignored(m_stage_name)
  /\ background_summary \notin Placeholders

\* main.py has just sent a turn to the LLM: the system prompt of the call
TurnSent ==
  /\ program = "main"
  /\ pc = "m_You"
  /\ calls # <<>>
  /\ calls[1].op = "llm"

PromptBackground == calls[1].arg.messages[1].content.background

\* what the end of a stage can have stored as its summary
StoredSummaries(stage) == {Comforted(stage), Ignored(stage)} \cup Placeholders

\* C28 (as stated): in main.py the summaries accumulate: the background
\* text in the system prompt of a stage contains the summary of every stage
\* completed before, none is dropped or overwritten.
C28_SummariesAccumulate ==
  TurnSent =>
    \A j \in 1..(m_stage - 1) :
      \E s \in StoredSummaries(LIFE_STAGES[j]) : contains(PromptBackground, s)

\* in the third stage the background of the prompt is the summary of the
\* second stage alone; nothing of the first stage is in it
C28_Witness ==
  /\ TurnSent
  /\ m_stage = 3
  /\ PromptBackground = Ignored("TEEN")
  /\ \A s \in StoredSummaries("CHILD") : ~contains(PromptBackground, s)

\* C29 (as stated): in main.py the quit keyword at the 'You:' prompt ends
\* the whole run at once, not only the current event: no LLM, speech or
\* motion call is made any more.
C29_QuitEndsWholeRun ==
  [][(program = "main" /\ pc = "m_You" /\ lower(user_input') = Str_quit)
       => (pc' = "Done" /\ calls' = <<>>)]_vars

\* 'quit' was typed in the first event of the first stage; the robot was
\* moved, the second event began and its opening turn went to the LLM
C29_Witness ==
  /\ program = "main"
  /\ m_stage = 1
  /\ m_event = 2
  /\ pc = "m_You"
  /\ Len(stage_history) = 4
  /\ stage_history[3].content = InitialEventPrompt("CHILD", NoStyle, "learning_with_teacher")
  /\ CallsOf({"llm"}) # {}
  /\ CallsOf({"speak_text"}) # {}

\* C30 (as stated): in main.py an empty line at the 'You:' prompt does not
\* advance the state: no LLM call is made with it, nothing is appended to
\* the stage history, and the user is prompted again.
C30_EmptyInputReprompts ==
  [][ /\ (program = "main" /\ pc = "m_You" /\ user_input' = <<>>)
           => (pc' = "m_You" /\ calls' = <<>> /\ stage_history' = stage_history)
      /\ (program = "main" /\ pc = "m_Turn" /\ user_input = <<>>)
           => (calls' = <<>> /\ stage_history' = stage_history) ]_vars

\* an empty line was typed; it went to the LLM as the user message and is
\* in the stage history with the reply to it
C30_Witness ==
  /\ program = "main"
  /\ pc = "m_You"
  /\ user_input = <<>>
  /\ Len(stage_history) = 4
  /\ stage_history[3] = Msg("user", <<>>)
  /\ \E i \in CallsOf({"llm"}) : Last(calls[i].arg.messages) = Msg("user", <<>>)

(***************************************************************************)
(* Claims C31 to C39                                                       *)
(***************************************************************************)
\* the posture commands given to the controller in a list of calls, and the
\* posture requests sent to the robot, each in order
PostureCommands(c) ==
  LET idx == SelectSeq([i \in 1..Len(c) |-> i],
                       LAMBDA i : c[i].op \in {"go_to_crouch", "go_to_posture"})
  IN  [n \in 1..Len(idx) |-> c[idx[n]].arg]

PostureRequests(c) ==
  LET idx == SelectSeq([i \in 1..Len(c) |-> i], LAMBDA i : c[i].op = "posture")
  IN  [n \in 1..Len(idx) |-> c[idx[n]].arg]

\* the posture commands the claim expects of a turn in a stage
TurnPostures(stage) ==
  IF stage = "baby" THEN <<"Crouch">>
  ELSE IF stage = "adult" THEN <<"LyingBack">>
  ELSE IF stage = "elderly" THEN <<"SitRelax">>
  ELSE <<>>

\* the handler that ran was the entry of a stage whose data loaded, an
\* opening line that the LLM delivered, or a normal reply that the LLM
\* delivered
PostureTurn ==
  /\ program = "new_main"
  /\ \/ pc = "StageEntry" /\ load_json_data(stage_name).loaded
     \/ pc = "EventEntry" /\ Last(messages').role = "assistant"
     \/ pc = "AwaitingUserInput" /\ pc' = "AwaitingControl"

\* C31: in new_main.py the posture of the stage is taken at stage entry and
\* after every opening line and normal reply that was processed: Crouch in
\* the baby stage, LyingBack in the adult stage, SitRelax in the elderly
\* stage, as the last command of the handler; in the child and teen stages
\* these handlers give no posture command at all.
C31_StagePostureAfterTurn ==
  [][PostureTurn =>
       /\ PostureCommands(calls') = TurnPostures(stage_name)
       /\ robot => PostureRequests(calls') = TurnPostures(stage_name)
       /\ ~robot => PostureRequests(calls') = <<>>
       /\ TurnPostures(stage_name) # <<>> =>
            /\ Last(calls').op \in PostureOps
            /\ Last(calls').arg = TurnPostures(stage_name)[1]
       /\ stage_name \in {"child", "teen"} =>
            \A i \in DOMAIN calls' : calls'[i].op \notin PostureOps]_vars

\* a normal reply in the adult stage was spoken and played, and the last
\* request to the robot was the posture LyingBack
C31_Witness ==
  /\ program = "new_main"
  /\ pc = "AwaitingControl"
  /\ stage_name = "adult"
  /\ robot
  /\ CallsOf({"tts.request"}) # {}
  /\ Last(calls) = [op |-> "posture", arg |-> "LyingBack", block |-> FALSE, during |-> Last(calls).during]

\* the requests sent to the robot after call k of a list of calls: posture
\* and move requests, in order
RequestsAfter(c, k) ==
  LET idx == SelectSeq([i \in 1..Len(c) |-> i],
                       LAMBDA i : i > k /\ c[i].op \in {"posture", "moveTo"})
  IN  [n \in 1..Len(idx) |-> <<c[idx[n]].op, c[idx[n]].arg>>]

\* StandInit, turn right 90 degrees, forward 1 metre, turn left 90 degrees,
\* LyingBelly
ShutdownSequence ==
  << <<"posture", "StandInit">>, <<"moveTo", <<0, -90>> >>, <<"moveTo", <<1, 0>> >>,
     <<"moveTo", <<0, 90>> >>, <<"posture", "LyingBelly">> >>

ShutdownCalls == CallsOf({"perform_elderly_shutdown"})

\* C32: perform_elderly_shutdown sends, in this order, the posture
\* StandInit, the change_position sequence (right 90 degrees, forward 1
\* metre, left 90 degrees) and the posture LyingBelly; new_main.py calls it
\* only in the wrap-up of the last event of the elderly stage, and no
\* posture or motion command follows it in the run.
C32_ElderlyShutdownLast ==
  (program = "new_main" /\ ShutdownCalls # {}) =>
    /\ Cardinality(ShutdownCalls) = 1
    /\ stage_name = "elderly"
    /\ is_last_event
    /\ event_idx = Len(event_items)
    /\ pc = "Done"
    /\ \A k \in ShutdownCalls :
         /\ IsPrefix(RequestsAfter(calls, k), ShutdownSequence)
         /\ (robot /\ ~failed) => RequestsAfter(calls, k) = ShutdownSequence
         /\ ~robot => RequestsAfter(calls, k) = <<>>
         /\ \A i \in (k + 1)..Len(calls) :
              /\ calls[i].op \in {"go_to_posture", "posture", "moveTo"}
              /\ calls[i].op = "go_to_posture" => calls[i].arg \in {"StandInit", "LyingBelly"}

\* the last event of the elderly stage was wrapped up with a robot and
\* without a failure: the five requests were sent and the run is over
C32_Witness ==
  /\ program = "new_main"
  /\ pc = "Done"
  /\ robot
  /\ ~failed
  /\ ShutdownCalls # {}
  /\ \A k \in ShutdownCalls : RequestsAfter(calls, k) = ShutdownSequence
  /\ Last(calls).arg = "LyingBelly"

\* a speech block has been delivered
SpeechArrived == \E i \in DOMAIN arrived : arrived[i]

\* the arrival number of the first speech block
FirstSpeech == CHOOSE i \in DOMAIN arrived : arrived[i] /\ \A j \in 1..(i - 1) : ~arrived[j]

\* how many blocks without speech have been delivered since the last speech
\* block (since the stream opened, if there was none)
TrailingSilence ==
  CHOOSE k \in 0..Len(arrived) :
    /\ \A i \in (Len(arrived) - k + 1)..Len(arrived) : ~arrived[i]
    /\ k = Len(arrived) \/ arrived[Len(arrived) - k]

\* C33: the voice-activity callback.  The silence counter never exceeds
\* post_silence_blocks; nothing is recorded and the recording flag is not
\* set before the first speech block; between two blocks the flag is set
\* exactly when a speech block has arrived and fewer than
\* post_silence_blocks blocks without speech have arrived since the last
\* speech block, the counter then counts exactly these blocks (0 after a
\* speech block), the callback stops the stream only when a speech block
\* was followed by post_silence_blocks blocks without speech, and after
\* that no further block is processed
C33_VadStateMachine ==
  program = "stt" =>
    /\ silence_counter \in 0..post_silence_blocks
    /\ is_recording => SpeechArrived
    /\ recorded_audio # <<>> => SpeechArrived
    /\ cb_pc = "idle" =>
         /\ is_recording <=> (SpeechArrived /\ TrailingSilence < post_silence_blocks)
         /\ stream = "stopped" => (SpeechArrived /\ TrailingSilence = post_silence_blocks)
         /\ (SpeechArrived /\ TrailingSilence = post_silence_blocks) => stream \in {"stopped", "closed"}
         /\ SpeechArrived => TrailingSilence <= post_silence_blocks
         /\ SpeechArrived => silence_counter = TrailingSilence
         /\ (arrived # <<>> /\ Last(arrived)) => silence_counter = 0

\* the callback stopped the stream after speech, a pause shorter than
\* post_silence_blocks, and speech again
C33_Witness ==
  /\ program = "stt"
  /\ stream = "stopped"
  /\ cb_pc = "idle"
  /\ ~is_recording
  /\ silence_counter = post_silence_blocks
  /\ \E i, j, k \in DOMAIN arrived : i < j /\ j < k /\ arrived[i] /\ ~arrived[j] /\ arrived[k]

\* the sequence s ends the sequence t
IsSuffix(s, t) == Len(s) <= Len(t) /\ SubSeq(t, Len(t) - Len(s) + 1, Len(t)) = s

\* the blocks from the first speech block to the last one delivered
FromFirstSpeech == [i \in 1..(Len(arrived) - FirstSpeech + 1) |-> FirstSpeech + i - 1]

\* the polling loop of listen_and_transcribe has been left
PollLoopLeft == poll_pc \in {"exited", "returned"}

\* C34: under every interleaving of the audio callback and the polling loop,
\* the loop is left only after the callback has detected the end of speech:
\* not while the recording is in progress, not before speech was recorded,
\* and the recorded audio then ends with the blocks from the first speech
\* block to the stopping block, in arrival order
C34_PollExitsAfterEndOfSpeech ==
  (program = "stt" /\ PollLoopLeft) =>
    /\ ~is_recording
    /\ SpeechArrived
    /\ TrailingSilence = post_silence_blocks
    /\ poll_pc = "returned" => IsSuffix(FromFirstSpeech, recorded_audio)

\* listen_and_transcribe has left the loop and closed the stream while the
\* recording was in progress: the audio that goes to the transcription ends
\* with the first speech block
C34_Witness ==
  /\ program = "stt"
  /\ poll_pc = "returned"
  /\ stream = "closed"
  /\ is_recording
  /\ Last(recorded_audio) = FirstSpeech
  /\ FirstSpeech = Len(arrived)

\* the calls of the log c that ask the LLM for a stage summary
SummaryCalls(c) == {i \in DOMAIN c : c[i].op = "llm" /\ "reply" \in DOMAIN c[i].arg}

\* every way a reply to a summary request can turn out, at any stage
AllSummaryOutcomes == UNION {SummaryOutcomes[s] : s \in DOMAIN SummaryOutcomes}

\* C35: main.py.  The end of a stage leaves the stage history empty whatever
\* the summary request returns, also when the history was empty already, so
\* every stage is entered with an empty history; the summary is requested
\* once at the end of a stage, by no other step, and after it the run only
\* waits at the gate, enters the next stage or ends
C35_StageHistoryClearedOnce ==
  [][program = "main" =>
       /\ pc = "m_StageEnd" =>
            /\ stage_history' = <<>>
            /\ stage_history # <<>> => (calls' # <<>> /\ SummaryCalls(calls') = {1})
            /\ Len(calls') <= 1
            /\ pc' \in {"m_Gate", "Done"}
            /\ m_stage' = m_stage
       /\ pc # "m_StageEnd" => SummaryCalls(calls') = {}
       /\ pc = "m_Gate" =>
            /\ stage_history = <<>>
            /\ pc' \in {"m_Gate", "m_EventEntry"}
       /\ m_stage' # m_stage =>
            /\ pc = "m_Gate" /\ pc' = "m_EventEntry"
            /\ m_stage' = m_stage + 1
            /\ stage_history' = <<>>
       /\ \A out \in AllSummaryOutcomes :
            summarize_and_determine_next_style(<<>>, background_summary, out).history = <<>>]_vars

\* the first stage has ended with an empty history after a summary request
\* that raised on a history of several messages
C35_Witness ==
  /\ program = "main"
  /\ pc = "m_Gate"
  /\ m_stage = 1
  /\ stage_history = <<>>
  /\ failed
  /\ SummaryCalls(calls) = {1}
  /\ Len(calls[1].arg.messages) >= 2

\* C36: the cleaned text returned by extract_motion_tags_and_clean_text holds
\* no occurrence of '[' letters and underscores ']', whatever the input
C36_CleanTextHasNoTag ==
  (program = "functions" /\ fn_result.op = "extract_motion_tags_and_clean_text") =>
    TagSpans(fn_result.value.clean_text) = {}

\* '[[a]b] c' has been cleaned to '[b] c': removing the inner tag made a new
\* one, which goes to the speech synthesis
C36_Witness ==
  /\ program = "functions"
  /\ fn_result.op = "extract_motion_tags_and_clean_text"
  /\ fn_arg = <<"[","[","a","]","b","]"," ","c">>
  /\ fn_result.value.tags = {<<"a">>}
  /\ fn_result.value.clean_text = <<"[","b","]"," ","c">>
  /\ TagSpans(fn_result.value.clean_text) = {<<1, 3>>}

\* the base name of an animation, in lower case, letters only
BaseCompact(name) == SelectSeq(lower(LastSegment(name)), IsLower)

\* _find_animation_for_tag has been applied to a tag that
\* MOTION_SYSTEM_PROMPT advertises, with the list of the repository
AdvertisedTagLookedUp ==
  /\ program = "functions"
  /\ emo_list = "repository"
  /\ fn_result.op = "_find_animation_for_tag"
  /\ fn_arg \in PromptEmotionTags \cup PromptGestureTags

\* C37: with the list of the repository every tag advertised in
\* MOTION_SYSTEM_PROMPT resolves: a gesture tag to an entry under Gestures
\* whose base name starts with the key of the tag, an emotion tag to an
\* entry whose base name starts with the emotion; none is left unresolved
C37_AdvertisedTagsResolve ==
  AdvertisedTagLookedUp =>
    /\ fn_result.value # None
    /\ startswith(BaseCompact(fn_result.value), _normalize_tag(fn_arg))
    /\ fn_arg \in PromptGestureTags => contains(lower(fn_result.value), GesturesInfix)

\* the advertised tag [neutral] has been looked up and nothing was found
C37_Witness ==
  /\ AdvertisedTagLookedUp
  /\ fn_arg = neutral
  /\ fn_result.value = None


\* new_main.py is in the conversation loop of the baby event first_words
AtFirstWords ==
  /\ program = "new_main"
  /\ stage_name = "baby"
  /\ pc \in {"AwaitingUserInput", "AwaitingControl"}
  /\ current_event.key = "first_words"

\* C38: new_main.py treats the baby event first_words as the last baby
\* event.  Entering it sets is_last_event and force_stage_end; the wrap-up
\* of the event runs with is_last_event set and spins; whichever way the
\* conversation loop of the event is left (wrap-up, failed or not, or an LLM
\* error in a turn) the next stage is entered, and the only other ways out
\* end the run (the quit keyword, an error that leaves main); no baby event
\* behind first_words is ever entered
C38_FirstWordsEndsBabyStage ==
  [][program = "new_main" =>
       /\ (pc = "EventEntry" /\ stage_name = "baby" /\ current_event.key = "first_words") =>
            (is_last_event' /\ force_stage_end' /\ AtFirstWords')
       /\ (stage_name = "baby" /\ pc \in {"EventEntry", "AwaitingUserInput", "AwaitingControl"}) =>
            \A j \in 1..(event_idx - 1) : event_items[j].key # "first_words"
       /\ AtFirstWords =>
            /\ is_last_event /\ force_stage_end
            /\ pc' # "EventEntry"
            /\ \/ AtFirstWords' /\ event_idx' = event_idx
               \/ pc' = "StageEntry" /\ stage_idx' = stage_idx + 1
               \/ pc' = "Done" /\ doneBy' = "quit" /\ pc = "AwaitingUserInput"
               \/ pc' = "Crashed" /\ pc = "AwaitingUserInput"
            /\ pc = "AwaitingControl" =>
                 \A i \in DOMAIN calls' :
                   calls'[i].op = "perform_wrap_up_action" => calls'[i].arg = TRUE]_vars

\* the wrap-up of first_words, the second of three baby events, has led to
\* the entry of the child stage
C38_Witness ==
  /\ program = "new_main"
  /\ pc = "StageEntry"
  /\ stage_name = "child"
  /\ Len(behaviour["baby"].events) = 3
  /\ event_idx = 2
  /\ behaviour["baby"].events[event_idx].key = "first_words"
  /\ force_stage_end
  /\ is_last_event
  /\ CallsOf({"perform_wrap_up_action"}) # {}

\* the parent-role menu has answered
RoleSelected == program = "functions" /\ fn_result.op = "select_parent_role"

\* what was typed is a number between 1 and the number of listed roles
ValidSelection == int(fn_arg).ok /\ int(fn_arg).value \in 1..Len(fn_result.value.roles)

\* C39: the parent-role menu accepts a selection only when it is a number
\* between 1 and the number of listed roles, and then chooses the role
\* listed at that number; every other input (not a number, 0, negative, too
\* large) chooses parent_artist
C39_OnlyListedNumbersAccepted ==
  RoleSelected =>
    /\ ValidSelection => fn_result.value.chosen = fn_result.value.roles[int(fn_arg).value]
    /\ ~ValidSelection => fn_result.value.chosen = "parent_artist"

\* '0' was typed at a menu of three roles and the last role was chosen, not
\* the default
C39_Witness ==
  /\ RoleSelected
  /\ fn_arg = <<"0">>
  /\ fn_result.value.roles = <<"parent_artist", "parent_strict", "parent_absent">>
  /\ fn_result.value.chosen = "parent_absent"
====
